---- MODULE Spec2Model ----
(***************************************************************************)
(* A model of the BTP price-catalog search service: the text processor,    *)
(* the spelling corrector, the synonym dictionary, the tiered search       *)
(* engine (src/search_engine.py), and the hierarchical catalog tree and    *)
(* scoped search of src/recup/backend.py.                                  *)
(*                                                                         *)
(* A text is a sequence of characters; a character is a one-symbol string. *)
(* Accented letters are written by name ("e_acute" is U+00E9), combining   *)
(* marks likewise ("comb_acute" is U+0301).  Four characters from outside   *)
(* French stand for their kinds: "C_double_struck" (U+2102), an upper-case *)
(* letter without a lower-case form; "joiner" (U+034F), a mark of category *)
(* Mn and combining class 0; "mark_pamudpod" (U+1715) and "mark_ca"        *)
(* (U+16FF0), marks of category Mc and combining classes 9 and 6.          *)
(***************************************************************************)
EXTENDS Integers, Sequences, FiniteSets, TLC

\* ---------------------------------------------------------------- characters

Digits == {"0", "1", "2", "3", "4", "5", "6", "7", "8", "9"}

LowerLetters ==
  {"a", "b", "c", "d", "e", "f", "g", "h", "i", "j", "k", "l", "m",
   "n", "o", "p", "q", "r", "s", "t", "u", "v", "w", "x", "y", "z"}

UpperLetters ==
  {"A", "B", "C", "D", "E", "F", "G", "H", "I", "J", "K", "L", "M",
   "N", "O", "P", "Q", "R", "S", "T", "U", "V", "W", "X", "Y", "Z"}

AccentedLower == {"e_acute", "e_grave", "a_circ"}

AccentedUpper == {"E_acute", "E_grave", "A_circ"}

\* Unicode category Lu without a lower-case mapping.
UncasedUpper == {"C_double_struck"}

\* Unicode category Mn: the combining marks NFD produces, and the joiner.
CombiningMarks == {"comb_acute", "comb_grave", "comb_circ", "joiner"}

\* Unicode category Mc: spacing marks.
SpacingMarks == {"mark_pamudpod", "mark_ca"}

\* unicodedata.combining(c): the canonical combining class.
CombiningClass(c) ==
  CASE c \in {"comb_acute", "comb_grave", "comb_circ"} -> 230
    [] c = "mark_pamudpod" -> 9
    [] c = "mark_ca" -> 6
    [] OTHER -> 0

\* str.lower() / str.upper() on one character.
LowerPairs ==
  << <<"A", "a">>, <<"B", "b">>, <<"C", "c">>, <<"D", "d">>, <<"E", "e">>,
     <<"F", "f">>, <<"G", "g">>, <<"H", "h">>, <<"I", "i">>, <<"J", "j">>,
     <<"K", "k">>, <<"L", "l">>, <<"M", "m">>, <<"N", "n">>, <<"O", "o">>,
     <<"P", "p">>, <<"Q", "q">>, <<"R", "r">>, <<"S", "s">>, <<"T", "t">>,
     <<"U", "u">>, <<"V", "v">>, <<"W", "w">>, <<"X", "x">>, <<"Y", "y">>,
     <<"Z", "z">>, <<"E_acute", "e_acute">>, <<"E_grave", "e_grave">>,
     <<"A_circ", "a_circ">> >>

LowerOf ==
  [c \in {LowerPairs[i][1] : i \in DOMAIN LowerPairs} |->
     LowerPairs[CHOOSE i \in DOMAIN LowerPairs : LowerPairs[i][1] = c][2]]

UpperOf ==
  [c \in {LowerPairs[i][2] : i \in DOMAIN LowerPairs} |->
     LowerPairs[CHOOSE i \in DOMAIN LowerPairs : LowerPairs[i][2] = c][1]]

LowerChar(c) == IF c \in DOMAIN LowerOf THEN LowerOf[c] ELSE c

UpperChar(c) == IF c \in DOMAIN UpperOf THEN UpperOf[c] ELSE c

\* unicodedata.normalize('NFD', c) on one character: base letter + mark.
DecomposeChar(c) ==
  CASE c = "e_acute" -> <<"e", "comb_acute">>
    [] c = "e_grave" -> <<"e", "comb_grave">>
    [] c = "a_circ"  -> <<"a", "comb_circ">>
    [] c = "E_acute" -> <<"E", "comb_acute">>
    [] c = "E_grave" -> <<"E", "comb_grave">>
    [] c = "A_circ"  -> <<"A", "comb_circ">>
    [] OTHER         -> <<c>>

\* The regex class \w (str patterns): letters, digits and the underscore.
IsWordChar(c) ==
  c \in LowerLetters \cup UpperLetters \cup AccentedLower \cup AccentedUpper
        \cup UncasedUpper \cup Digits \cup {"_"}

\* The regex class \s restricted to the characters of the model.
IsSpace(c) == c = " "

\* ---------------------------------------------------------- generic helpers

RECURSIVE FlattenFrom(_, _)
FlattenFrom(seqs, i) ==
  IF i > Len(seqs) THEN <<>> ELSE seqs[i] \o FlattenFrom(seqs, i + 1)

Flatten(seqs) == FlattenFrom(seqs, 1)

RECURSIVE SelectFrom(_, _, _)
SelectFrom(text, keep, i) ==
  IF i > Len(text) THEN <<>>
  ELSE (IF text[i] \in keep THEN <<>> ELSE <<text[i]>>) \o SelectFrom(text, keep, i + 1)

\* text with the characters of `drop` removed
Without(text, drop) == SelectFrom(text, drop, 1)

\* pat occurs in text at position i            (text[i:i+len(pat)] == pat)
MatchAt(text, i, pat) ==
  /\ i >= 1
  /\ i + Len(pat) - 1 <= Len(text)
  /\ \A k \in 1..Len(pat) : text[i + k - 1] = pat[k]

\* Python's `a in b` on strings
IsSubstring(a, b) == \E i \in 1..(Len(b) - Len(a) + 1) : MatchAt(b, i, a)

\* Python's b.startswith(a)
StartsWith(b, a) == MatchAt(b, 1, a)

\* Two neighbours NFD puts the other way round: the second has a combining
\* class, and a lower one than the first.
OutOfOrder(text, i) ==
  /\ CombiningClass(text[i + 1]) > 0
  /\ CombiningClass(text[i]) > CombiningClass(text[i + 1])

\* The canonical ordering of NFD: marks sorted by combining class within each
\* run of marks that have one.
RECURSIVE CanonicalOrder(_)
CanonicalOrder(text) ==
  IF \A i \in 1..(Len(text) - 1) : ~OutOfOrder(text, i) THEN text
  ELSE CanonicalOrder(
         [k \in 1..Len(text) |->
            IF k = (CHOOSE i \in 1..(Len(text) - 1) : OutOfOrder(text, i))
            THEN text[k + 1]
            ELSE IF k = (CHOOSE i \in 1..(Len(text) - 1) : OutOfOrder(text, i)) + 1
            THEN text[k - 1]
            ELSE text[k]])

\* unicodedata.normalize('NFD', text)
Decompose(text) ==
  CanonicalOrder(Flatten([i \in 1..Len(text) |-> DecomposeChar(text[i])]))

\* str.lower(), str.upper()
Lower(text) == [i \in 1..Len(text) |-> LowerChar(text[i])]

Upper(text) == [i \in 1..Len(text) |-> UpperChar(text[i])]

\* str.split(): maximal runs of non-whitespace characters, in order.
RECURSIVE SplitFrom(_, _, _)
SplitFrom(text, i, cur) ==
  IF i > Len(text) THEN (IF cur = <<>> THEN <<>> ELSE <<cur>>)
  ELSE IF IsSpace(text[i])
       THEN (IF cur = <<>> THEN <<>> ELSE <<cur>>) \o SplitFrom(text, i + 1, <<>>)
       ELSE SplitFrom(text, i + 1, Append(cur, text[i]))

Split(text) == SplitFrom(text, 1, <<>>)

\* str.strip()
RECURSIVE StripLeft(_)
StripLeft(text) ==
  IF text # <<>> /\ IsSpace(text[1]) THEN StripLeft(Tail(text)) ELSE text

RECURSIVE StripRight(_)
StripRight(text) ==
  IF text # <<>> /\ IsSpace(text[Len(text)])
  THEN StripRight(SubSeq(text, 1, Len(text) - 1)) ELSE text

Strip(text) == StripRight(StripLeft(text))

\* ' '.join(words)
RECURSIVE JoinFrom(_, _, _)
JoinFrom(words, sep, i) ==
  IF i > Len(words) THEN <<>>
  ELSE IF i = Len(words) THEN words[i]
  ELSE words[i] \o sep \o JoinFrom(words, sep, i + 1)

Join(words, sep) == JoinFrom(words, sep, 1)

\* set(seq)
Range(seq) == {seq[i] : i \in DOMAIN seq}

\* ------------------------------------------------------------ text_processor

\* Stand-in for a value that is not a str (a NaN cell, None).
NotAString == <<"<not-a-str>">>

IsString(text) == text # NotAString

\* TextProcessor.normalize_text: lower-case, NFD, drop category Mn.
normalize_text(text) ==
  IF ~IsString(text) THEN <<>>
  ELSE Without(Decompose(Lower(text)), CombiningMarks)

\* TextProcessor.STOP_WORDS_BTP
STOP_WORDS_BTP ==
  { <<"d", "e">>,
    <<"l", "a">>,
    <<"l", "e">>,
    <<"e", "t">>,
    <<"e", "n">>,
    <<"u", "n">>,
    <<"u", "n", "e">>,
    <<"a", "v", "e", "c">>,
    <<"d", "u">>,
    <<"d", "e", "s">>,
    <<"l", "e", "s">>,
    <<"p", "o", "u", "r">>,
    <<"s", "u", "r">>,
    <<"d", "a", "n", "s">>,
    <<"p", "a", "r">>,
    <<"a", "u">>,
    <<"a", "u", "x">>,
    <<"c", "e">>,
    <<"c", "e", "s">>,
    <<"s", "o", "n">>,
    <<"s", "a">>,
    <<"y">>,
    <<"c", "o", "m", "p", "r", "i", "s">> }

\* TextProcessor.ABBREVIATIONS_BTP, in the dictionary's insertion order:
\* <<abbreviation, expansion>>.
ABBREVIATIONS_BTP ==
  << << <<"a", "l", "l", "u">>,
        <<"a", "l", "u", "m", "i", "n", "i", "u", "m">> >>,
     << <<"a", "l", "u">>,
        <<"a", "l", "u", "m", "i", "n", "i", "u", "m">> >>,
     << <<"g", "a", "l", "v", "a">>,
        <<"g", "a", "l", "v", "a", "n", "i", "s", "e_acute">> >>,
     << <<"m", "e", "t", "a", "l">>,
        <<"m", "e_acute", "t", "a", "l", "l", "i", "q", "u", "e">> >>,
     << <<"m", "2">>,
        <<"m", "e_grave", "t", "r", "e", " ", "c", "a", "r", "r", "e_acute">> >>,
     << <<"m", "3">>,
        <<"m", "e_grave", "t", "r", "e", " ", "c", "u", "b", "e">> >>,
     << <<"c", "m">>,
        <<"c", "e", "n", "t", "i", "m", "e_grave", "t", "r", "e">> >>,
     << <<"m", "m">>,
        <<"m", "i", "l", "l", "i", "m", "e_grave", "t", "r", "e">> >>,
     << <<"k", "g">>,
        <<"k", "i", "l", "o", "g", "r", "a", "m", "m", "e">> >>,
     << <<"e", "p">>,
        <<"e_acute", "p", "a", "i", "s", "s", "e", "u", "r">> >>,
     << <<"d", "i", "m">>,
        <<"d", "i", "m", "e", "n", "s", "i", "o", "n">> >>,
     << <<"h", "t">>,
        <<"h", "a", "u", "t", "e", "u", "r">> >>,
     << <<"l", "g">>,
        <<"l", "o", "n", "g", "u", "e", "u", "r">> >>,
     << <<"l", "a", "r", "g">>,
        <<"l", "a", "r", "g", "e", "u", "r">> >>,
     << <<"p", "r", "o", "f">>,
        <<"p", "r", "o", "f", "o", "n", "d", "e", "u", "r">> >>,
     << <<"d", "i", "a", "m">>,
        <<"d", "i", "a", "m", "e_grave", "t", "r", "e">> >>,
     << <<"e", "p", "a", "i", "s", "s">>,
        <<"e_acute", "p", "a", "i", "s", "s", "e", "u", "r">> >>,
     << <<"b", "a", "t">>,
        <<"b", "a_circ", "t", "i", "m", "e", "n", "t">> >>,
     << <<"e", "l", "e", "c">>,
        <<"e_acute", "l", "e", "c", "t", "r", "i", "c", "i", "t", "e_acute">> >>,
     << <<"p", "l", "o", "m", "b">>,
        <<"p", "l", "o", "m", "b", "e", "r", "i", "e">> >>,
     << <<"m", "e", "n", "u", "i", "s">>,
        <<"m", "e", "n", "u", "i", "s", "e", "r", "i", "e">> >> >>

\* The regex assertion \b at position p (between text[p-1] and text[p]).
WordAt(text, p) == p >= 1 /\ p <= Len(text) /\ IsWordChar(text[p])

Boundary(text, p) == WordAt(text, p - 1) # WordAt(text, p)

\* re.sub(r'\b' + re.escape(abbrev) + r'\b', full, text), scanning from i.
RECURSIVE SubWordFrom(_, _, _, _)
SubWordFrom(text, abbrev, full, i) ==
  IF i > Len(text) THEN <<>>
  ELSE IF /\ MatchAt(text, i, abbrev)
          /\ Boundary(text, i)
          /\ Boundary(text, i + Len(abbrev))
       THEN full \o SubWordFrom(text, abbrev, full, i + Len(abbrev))
       ELSE <<text[i]>> \o SubWordFrom(text, abbrev, full, i + 1)

\* The maximal runs of \w characters of text, from position i.
RECURSIVE WordRunsFrom(_, _, _)
WordRunsFrom(text, i, cur) ==
  IF i > Len(text) THEN (IF cur = <<>> THEN {} ELSE {cur})
  ELSE IF IsWordChar(text[i])
       THEN WordRunsFrom(text, i + 1, Append(cur, text[i]))
       ELSE (IF cur = <<>> THEN {} ELSE {cur}) \cup WordRunsFrom(text, i + 1, <<>>)

\* The loop over ABBREVIATIONS_BTP.items(): one substitution pass per entry.
\* An abbreviation is made of \w characters only, so \b...\b matches it
\* exactly where it is a whole run of \w characters: a text that has no such
\* run (words: the runs of the text) is left as it is by the pass.
RECURSIVE ExpandAbbreviations(_, _, _)
ExpandAbbreviations(text, k, words) ==
  IF k > Len(ABBREVIATIONS_BTP) THEN text
  ELSE IF ABBREVIATIONS_BTP[k][1] \in words
       THEN LET replaced == SubWordFrom(text, ABBREVIATIONS_BTP[k][1],
                                        ABBREVIATIONS_BTP[k][2], 1)
            IN ExpandAbbreviations(replaced, k + 1, WordRunsFrom(replaced, 1, <<>>))
       ELSE ExpandAbbreviations(text, k + 1, words)

\* \d+ from position i, greedy: the position after the last digit, 0 if none.
RECURSIVE DigitsEnd(_, _)
DigitsEnd(text, i) ==
  IF i >= 1 /\ i <= Len(text) /\ text[i] \in Digits
  THEN (LET e == DigitsEnd(text, i + 1) IN IF e = 0 THEN i + 1 ELSE e)
  ELSE 0

\* \s* from position i, greedy: the position after the last space.
RECURSIVE SkipSpaces(_, _)
SkipSpaces(text, i) ==
  IF i >= 1 /\ i <= Len(text) /\ IsSpace(text[i]) THEN SkipSpaces(text, i + 1) ELSE i

\* [23]? at position i
Opt23(text, i) == IF i <= Len(text) /\ text[i] \in {"2", "3"} THEN i + 1 ELSE i

\* DOSAGE_PATTERN (\d+)\s*(kg/m[23]?|kg|l/m[23]?) anchored at i:
\* the position after the match, 0 if it does not match there.
DosageEnd(text, i) ==
  LET d == DigitsEnd(text, i)
      u == SkipSpaces(text, d)
  IN IF d = 0 THEN 0
     ELSE IF MatchAt(text, u, <<"k", "g", "/", "m">>) THEN Opt23(text, u + 4)
     ELSE IF MatchAt(text, u, <<"k", "g">>) THEN u + 2
     ELSE IF MatchAt(text, u, <<"l", "/", "m">>) THEN Opt23(text, u + 3)
     ELSE 0

\* DIMENSION_PATTERN (\d+)\s*x\s*(\d+)(?:\s*x\s*(\d+))? anchored at i.
DimensionEnd(text, i) ==
  LET d1 == DigitsEnd(text, i)
      x1 == SkipSpaces(text, d1)
      d2 == IF d1 # 0 /\ MatchAt(text, x1, <<"x">>)
            THEN DigitsEnd(text, SkipSpaces(text, x1 + 1)) ELSE 0
      x2 == SkipSpaces(text, d2)
      d3 == IF d2 # 0 /\ MatchAt(text, x2, <<"x">>)
            THEN DigitsEnd(text, SkipSpaces(text, x2 + 1)) ELSE 0
  IN IF d2 = 0 THEN 0 ELSE IF d3 # 0 THEN d3 ELSE d2

\* MEASUREMENT_PATTERN (\d+(?:[.,]\d+)?)\s*(m[23]?|cm|mm|kg|l|ml|cl) anchored
\* at i. The alternatives are tried in order, so "m" wins over "mm" and "ml".
MeasurementEnd(text, i) ==
  LET d1 == DigitsEnd(text, i)
      f  == IF d1 # 0 /\ d1 <= Len(text) /\ text[d1] \in {".", ","}
            THEN DigitsEnd(text, d1 + 1) ELSE 0
      d  == IF f # 0 THEN f ELSE d1
      u  == SkipSpaces(text, d)
  IN IF d1 = 0 THEN 0
     ELSE IF MatchAt(text, u, <<"m">>) THEN Opt23(text, u + 1)
     ELSE IF MatchAt(text, u, <<"c", "m">>) THEN u + 2
     ELSE IF MatchAt(text, u, <<"k", "g">>) THEN u + 2
     ELSE IF MatchAt(text, u, <<"l">>) THEN u + 1
     ELSE IF MatchAt(text, u, <<"c", "l">>) THEN u + 2
     ELSE 0

PatternEnd(pattern, text, i) ==
  CASE pattern = "DOSAGE"      -> DosageEnd(text, i)
    [] pattern = "DIMENSION"   -> DimensionEnd(text, i)
    [] pattern = "MEASUREMENT" -> MeasurementEnd(text, i)

\* m.group(0).replace(' ', '_')
Underscored(text) == [k \in 1..Len(text) |-> IF text[k] = " " THEN "_" ELSE text[k]]

\* PATTERN.sub(lambda m: m.group(0).replace(' ', '_'), text): the leftmost
\* non-overlapping matches, scanning from i.
RECURSIVE ProtectFrom(_, _, _)
ProtectFrom(pattern, text, i) ==
  IF i > Len(text) THEN <<>>
  ELSE LET e == PatternEnd(pattern, text, i)
       IN IF e # 0
          THEN Underscored(SubSeq(text, i, e - 1)) \o ProtectFrom(pattern, text, e)
          ELSE <<text[i]>> \o ProtectFrom(pattern, text, i + 1)

Protect(text) ==
  ProtectFrom("MEASUREMENT",
    ProtectFrom("DIMENSION", ProtectFrom("DOSAGE", text, 1), 1), 1)

\* The class [\w/_-]
IsTokenChar(c) == IsWordChar(c) \/ c \in {"/", "_", "-"}

\* [\w/_-]+ from i, greedy: the position after the run.
RECURSIVE TokenRunEnd(_, _)
TokenRunEnd(text, i) ==
  IF i <= Len(text) /\ IsTokenChar(text[i]) THEN TokenRunEnd(text, i + 1) ELSE i

\* Backtracking of the closing \b: the largest e in (i, top] with a boundary.
RECURSIVE LastBoundary(_, _, _)
LastBoundary(text, i, top) ==
  IF top <= i THEN 0
  ELSE IF Boundary(text, top) THEN top
  ELSE LastBoundary(text, i, top - 1)

\* re.findall(r'\b[\w/_-]+\b', text), scanning from i.
RECURSIVE FindTokensFrom(_, _)
FindTokensFrom(text, i) ==
  IF i > Len(text) THEN <<>>
  ELSE LET e == IF Boundary(text, i) /\ IsTokenChar(text[i])
                THEN LastBoundary(text, i, TokenRunEnd(text, i)) ELSE 0
       IN IF e # 0
          THEN <<SubSeq(text, i, e - 1)>> \o FindTokensFrom(text, e)
          ELSE FindTokensFrom(text, i + 1)

\* token.replace('_', ' ')
Restored(token) == [k \in 1..Len(token) |-> IF token[k] = "_" THEN " " ELSE token[k]]

HasDigit(token) == \E k \in 1..Len(token) : token[k] \in Digits

\* The filter loop of tokenize_btp: stop words without a digit and tokens of
\* length <= 1 are dropped.
RECURSIVE FilterTokens(_, _)
FilterTokens(tokens, i) ==
  IF i > Len(tokens) THEN <<>>
  ELSE LET token_restored == Restored(tokens[i])
       IN (IF /\ (token_restored \notin STOP_WORDS_BTP \/ HasDigit(token_restored))
              /\ Len(token_restored) > 1
           THEN <<token_restored>> ELSE <<>>) \o FilterTokens(tokens, i + 1)

\* TextProcessor.tokenize_btp
tokenize_btp(text, preserve_technical) ==
  LET lowered  == Lower(text)
      expanded == ExpandAbbreviations(lowered, 1, WordRunsFrom(lowered, 1, <<>>))
      guarded  == IF preserve_technical THEN Protect(expanded) ELSE expanded
  IN FilterTokens(FindTokensFrom(guarded, 1), 1)

\* ------------------------------------------------------------------ corrector

\* Corrector._load_corrections on a well-formed corrections.json, given as the
\* sequence of its items <<correct_word, <<variation, ...>>>> in file order:
\* every normalized variation maps to its correct word, and a later item
\* overwrites an earlier one with the same key.
RECURSIVE LoadCorrectionsFrom(_, _, _)
LoadCorrectionsFrom(data, k, correction_map) ==
  IF k > Len(data) THEN correction_map
  ELSE LET correct_word == data[k][1]
           keys == {normalize_text(data[k][2][j]) : j \in DOMAIN data[k][2]}
       IN LoadCorrectionsFrom(data, k + 1,
            [t \in DOMAIN correction_map \cup keys |->
               IF t \in keys THEN correct_word ELSE correction_map[t]])

\* `for variation in variations` (line 35) when the value of an item is a
\* str: the variations are its characters.
CharsOf(text) == [j \in DOMAIN text |-> <<text[j]>>]

StrItems(items) == [k \in DOMAIN items |-> <<items[k][1], CharsOf(items[k][2])>>]

\* The corrections file is [kind |-> "missing"], [kind |-> "invalid_json"]
\* (both caught: the empty map), [kind |-> "dict", items |-> <<...>>] with
\* lists for values, [kind |-> "dict_of_str", items |-> <<...>>] with a str
\* for value, or JSON on which the loop raises an error that is not caught:
\* [kind |-> "list"], which has no items() (line 34), and
\* [kind |-> "dict_of_number"], whose values are not iterable (line 35).
LoadRaises(source) == source.kind \in {"list", "dict_of_number"}

load_corrections(source) ==
  IF source.kind \in {"missing", "invalid_json"} THEN <<>>
  ELSE IF source.kind = "dict_of_str" THEN LoadCorrectionsFrom(StrItems(source.items), 1, <<>>)
  ELSE LoadCorrectionsFrom(source.items, 1, <<>>)

\* Lines 54-62 with only the first token looked up in the map.
correct_query_FirstOnly(correction_map, q) ==
  IF DOMAIN correction_map = {} THEN q
  ELSE LET query_norm == normalize_text(q)
           query_words == Split(query_norm)
           corrected_tokens ==
             [i \in DOMAIN query_words |->
                IF i = 1 /\ query_words[i] \in DOMAIN correction_map
                THEN correction_map[query_words[i]] ELSE query_words[i]]
       IN Join(corrected_tokens, <<" ">>)

\* Corrector.correct_query
correct_query(correction_map, q) ==
  IF DOMAIN correction_map = {} THEN q
  ELSE LET query_norm == normalize_text(q)
           query_words == Split(query_norm)
           corrected_tokens ==
             [i \in DOMAIN query_words |->
                IF query_words[i] \in DOMAIN correction_map
                THEN correction_map[query_words[i]] ELSE query_words[i]]
       IN Join(corrected_tokens, <<" ">>)

\* --------------------------------------------------------- dictionary_manager

\* DictionaryManager._build_reverse_index: normalized synonym -> the set of
\* normalized main terms that list it.
build_reverse_index(dict) ==
  LET norm_synonyms ==
        UNION {{normalize_text(dict[m][j]) : j \in DOMAIN dict[m]} : m \in DOMAIN dict}
  IN [s \in norm_synonyms |->
        {normalize_text(m) : m \in {mm \in DOMAIN dict :
            \E j \in DOMAIN dict[mm] : normalize_text(dict[mm][j]) = s}}]

\* load_dictionary (lines 29-35): the content of the file when it is there and
\* is JSON, the empty dictionary otherwise.
LoadedDictionary(file) == IF file.kind = "dict" THEN file.entries ELSE <<>>

\* Lines 80-84 of add_synonym: the dictionary with an entry for the key.
WithMainTerm(dict, main_term_key, main_term) ==
  IF main_term_key \in DOMAIN dict THEN dict
  ELSE [k \in DOMAIN dict \cup {main_term_key} |->
          IF k = main_term_key THEN <<main_term>> ELSE dict[k]]

\* Line 87: new_synonym.lower() in [s.lower() for s in synonyms]
HasSynonym(synonyms, new_synonym) ==
  \E j \in DOMAIN synonyms : Lower(synonyms[j]) = Lower(new_synonym)

\* The main terms of the tokens and their synonyms, with the tokens
\* themselves (lines 64-73); self.dictionary.get(main_term, []).
ExpandTokens(dict, rindex, tokens) ==
  LET main_terms == UNION {rindex[t] : t \in tokens \cap DOMAIN rindex}
  IN UNION {Range(dict[m]) : m \in main_terms \cap DOMAIN dict} \cup tokens

\* The set built by expand_query before the final slice (lines 60-73).
ExpandedTerms(dict, rindex, q) ==
  ExpandTokens(dict, rindex, Range(tokenize_btp(normalize_text(q), FALSE)))

\* list(expanded_terms)[:max_expansions]: a set has no defined iteration
\* order, so any max_expansions of its elements may be the ones kept.
KeptTerms(expanded_terms, max_expansions) ==
  IF Cardinality(expanded_terms) <= max_expansions THEN {expanded_terms}
  ELSE {kept \in SUBSET expanded_terms : Cardinality(kept) = max_expansions}

expand_query(dict, rindex, q, max_expansions) ==
  KeptTerms(ExpandedTerms(dict, rindex, q), max_expansions)

\* The default of expand_query's max_expansions parameter.
DefaultMaxExpansions == 10

\* -------------------------------------------------------------- search_engine

\* Mutant: matching by containment, as the earlier engine did.
get_flexible_matches_Contain(q_tokens, d_tokens) ==
  {q_token \in q_tokens :
     \E d_token \in d_tokens :
        IsSubstring(q_token, d_token) \/ IsSubstring(d_token, q_token)}

\* BTCSearchEngine._get_flexible_matches (startswith in either direction)
get_flexible_matches(q_tokens, d_tokens) ==
  {q_token \in q_tokens :
     \E d_token \in d_tokens :
        StartsWith(d_token, q_token) \/ StartsWith(q_token, d_token)}

\* Mutant: the exact-token bonus is forgotten.
D1Score_NoBonus(matches, q_tokens, d_tokens) == Cardinality(matches) * 10

\* The score of a D1 result (lines 81-83).
D1Score(matches, q_tokens, d_tokens) ==
  Cardinality(matches) * 10 + (IF q_tokens \cap d_tokens # {} THEN 5 ELSE 0)

\* The bonus added to a result kept by the D2 filter (line 101).
D2Bonus == 50

\* The score of a D3 result (line 122).
D3Score(matches) == Cardinality(matches) * 5

MatchD1 == "Mots-cles partiels (D1)"

MatchD2 == "Tous les mots-cles (D2)"

MatchD3 == "Synonymes (D3)"

\* SearchResult. matched_terms is list(matches) of a set: its order is not
\* defined and is not modelled.
MakeResult(row, score, match_type, matches) ==
  [designation |-> row.Designation, prix |-> row.Prix, unite |-> row.Unite,
   score |-> score, match_type |-> match_type, matched_terms |-> matches,
   num_matches |-> Cardinality(matches)]

\* The two preprocessing columns added to the frame (lines 71-74).
Preprocessed(frame) ==
  [i \in DOMAIN frame |->
     LET norm == normalize_text(frame[i].Designation)
     IN [frame[i] EXCEPT !.norm_designation = norm,
                         !.designation_tokens = Range(tokenize_btp(norm, TRUE))]]

\* The D1 loop over df.iterrows() (lines 77-89), from row i.
RECURSIVE BuildD1From(_, _, _)
BuildD1From(frame, q_tokens, i) ==
  IF i > Len(frame) THEN <<>>
  ELSE LET matches == get_flexible_matches(q_tokens, frame[i].designation_tokens)
       IN (IF matches # {}
           THEN <<MakeResult(frame[i],
                             D1Score(matches, q_tokens, frame[i].designation_tokens),
                             MatchD1, matches)>>
           ELSE <<>>) \o BuildD1From(frame, q_tokens, i + 1)

\* The D3 loop over df.iterrows() (lines 118-127), from row i.
RECURSIVE BuildD3From(_, _, _)
BuildD3From(frame, syn_terms, i) ==
  IF i > Len(frame) THEN <<>>
  ELSE LET matches == get_flexible_matches(syn_terms, frame[i].designation_tokens)
       IN (IF matches # {}
           THEN <<MakeResult(frame[i], D3Score(matches), MatchD3, matches)>>
           ELSE <<>>) \o BuildD3From(frame, syn_terms, i + 1)

\* Mutant: the D2 filter keeps every D1 result.
RECURSIVE FilterD2From_KeepAll(_, _, _)
FilterD2From_KeepAll(results, num_query_tokens, i) ==
  IF i > Len(results) THEN <<>>
  ELSE <<[results[i] EXCEPT !.score = @ + 50, !.match_type = "Tous les mots-cles (D2)"]>>
       \o FilterD2From_KeepAll(results, num_query_tokens, i + 1)

\* The D2 filter and relabelling (lines 96-102).
RECURSIVE FilterD2From(_, _, _)
FilterD2From(results, num_query_tokens, i) ==
  IF i > Len(results) THEN <<>>
  ELSE (IF results[i].num_matches = num_query_tokens
        THEN <<[results[i] EXCEPT !.score = @ + D2Bonus, !.match_type = MatchD2]>>
        ELSE <<>>) \o FilterD2From(results, num_query_tokens, i + 1)

\* results_d1 after the loop of lines 100-102 has written the bonus and the
\* label into the results it shares with results_d2.
MarkD2(results, num_query_tokens) ==
  [i \in DOMAIN results |->
     IF results[i].num_matches = num_query_tokens
     THEN [results[i] EXCEPT !.score = @ + D2Bonus, !.match_type = MatchD2]
     ELSE results[i]]

\* Mutant: r goes before the elements of equal score.
RECURSIVE InsertByScore_Strict(_, _)
InsertByScore_Strict(sorted, r) ==
  IF sorted = <<>> THEN <<r>>
  ELSE IF sorted[1].score > r.score
       THEN <<sorted[1]>> \o InsertByScore_Strict(Tail(sorted), r)
       ELSE <<r>> \o sorted

\* Insertion of r into a list sorted by score descending, after every element
\* whose score is not smaller: equal scores keep their order of arrival.
RECURSIVE InsertByScore(_, _)
InsertByScore(sorted, r) ==
  IF sorted = <<>> THEN <<r>>
  ELSE IF sorted[1].score >= r.score
       THEN <<sorted[1]>> \o InsertByScore(Tail(sorted), r)
       ELSE <<r>> \o sorted

RECURSIVE SortFrom(_, _, _)
SortFrom(results, i, sorted) ==
  IF i > Len(results) THEN sorted
  ELSE SortFrom(results, i + 1, InsertByScore(sorted, results[i]))

\* list.sort(key=lambda r: r.score, reverse=True): stable, descending.
SortByScoreDesc(results) == SortFrom(results, 1, <<>>)

\* The slice results[:limit]; a negative limit counts from the end.
Slice(results, lim) ==
  IF lim >= 0
  THEN SubSeq(results, 1, IF lim < Len(results) THEN lim ELSE Len(results))
  ELSE SubSeq(results, 1, Len(results) + lim)

\* Mutant: a D1 list with a single result is taken for an empty one.
TierAfterD1_OffByOne(results) == IF Len(results) <= 1 THEN "d3" ELSE "d2"

\* Which tier follows the D1 pass (line 91): D3 only when D1 is empty.
TierAfterD1(results) == IF results = <<>> THEN "d3" ELSE "d2"

\* The early returns of search (lines 57-58 and 67-68).
TooShort(q) == q = <<>> \/ Len(Strip(q)) < 2

\* Mutant: the empty token set is not checked.
NoTokens_Never(q_tokens) == FALSE

NoTokens(q_tokens) == q_tokens = {}

\* -------------------------------------------------------------- recup/backend

\* str.split(sep) with a one-character separator: empty fields are kept.
RECURSIVE SplitOnFrom(_, _, _, _)
SplitOnFrom(text, sep, i, cur) ==
  IF i > Len(text) THEN <<cur>>
  ELSE IF text[i] = sep THEN <<cur>> \o SplitOnFrom(text, sep, i + 1, <<>>)
  ELSE SplitOnFrom(text, sep, i + 1, Append(cur, text[i]))

SplitOn(text, sep) == SplitOnFrom(text, sep, 1, <<>>)

\* A dict keeps insertion order: `order` lists the keys, `node` holds the values.
EmptyDict == [order |-> <<>>, node |-> <<>>]

DictHas(d, k) == k \in DOMAIN d.node

DictPut(d, k, v) ==
  IF DictHas(d, k) THEN [d EXCEPT !.node[k] = v]
  ELSE [order |-> Append(d.order, k),
        node |-> [x \in DOMAIN d.node \cup {k} |-> IF x = k THEN v ELSE d.node[x]]]

\* The value None.
None == [none |-> TRUE]

IsNone(v) == "none" \in DOMAIN v

HierarchyOf(parts) ==
  [main        |-> parts[1],
   title       |-> parts[2],
   subtitle    |-> parts[3],
   subsubtitle |-> IF Len(parts) > 3 THEN parts[4] ELSE <<>>,
   item        |-> IF Len(parts) > 4 THEN parts[5] ELSE <<>>,
   detail      |-> IF Len(parts) > 5 THEN parts[6] ELSE <<>>]

parse_code_hierarchy(code) ==
  IF ~IsString(code) THEN None
  ELSE IF Len(SplitOn(code, ".")) < 3 THEN None ELSE HierarchyOf(SplitOn(code, "."))

\* lines 129-131 without the empty third segment
EntryTypeOf_ZeroOnly(parts) ==
  IF Len(parts) = 3 /\ parts[3] = <<"0">> THEN "title"
  ELSE IF Len(parts) = 4 /\ parts[4] \in {<<"0">>, <<>>} THEN "subtitle"
  ELSE "content"

\* lines 126-140, on the parts of a code that is a str
EntryTypeOf(parts) ==
  IF Len(parts) = 3 /\ parts[3] \in {<<"0">>, <<>>} THEN "title"
  ELSE IF Len(parts) = 4 /\ parts[4] \in {<<"0">>, <<>>} THEN "subtitle"
  ELSE "content"

identify_entry_type(designation, code) ==
  IF ~IsString(code) THEN "content" ELSE EntryTypeOf(SplitOn(code, "."))

\* f"{main}.{title}.{subtitle}"
TitleKey(hierarchy) ==
  hierarchy.main \o <<".">> \o hierarchy.title \o <<".">> \o hierarchy.subtitle

\* f"{title_key}.{subsubtitle}" if subsubtitle else title_key
SubtitleKey(hierarchy) ==
  IF hierarchy.subsubtitle # <<>>
  THEN TitleKey(hierarchy) \o <<".">> \o hierarchy.subsubtitle
  ELSE TitleKey(hierarchy)

NewTitleNode == [title |-> <<>>, title_index |-> 0, subtitles |-> EmptyDict, content |-> <<>>]

\* line 163: the title node is created on first sight of its key
WithTitleNode(structure, title_key) ==
  IF DictHas(structure, title_key) THEN structure
  ELSE DictPut(structure, title_key, NewTitleNode)

ContentItem(idx, row, hierarchy) ==
  [index |-> idx, code |-> row.Code, designation |-> row.Designation,
   unite |-> row.Unite, minimum |-> row.Minimum, moyen |-> row.Moyen,
   maximum |-> row.Maximum, hierarchy |-> hierarchy]

\* line 199: the content row goes to the subtitle node
AttachesToSubtitle_AnyExisting(hierarchy, subtitle_key, subtitles) ==
  DictHas(subtitles, subtitle_key)

AttachesToSubtitle(hierarchy, subtitle_key, subtitles) ==
  hierarchy.subsubtitle # <<>> /\ DictHas(subtitles, subtitle_key)

\* lines 171-173
PutTitle(structure, title_key, designation, idx) ==
  [structure EXCEPT !.node[title_key].title = designation,
                    !.node[title_key].title_index = idx]

\* lines 175-184
PutSubtitle(structure, title_key, subtitle_key, designation, idx) ==
  IF DictHas(structure.node[title_key].subtitles, subtitle_key)
  THEN [structure EXCEPT
          !.node[title_key].subtitles.node[subtitle_key].subtitle = designation,
          !.node[title_key].subtitles.node[subtitle_key].subtitle_index = idx]
  ELSE [structure EXCEPT
          !.node[title_key].subtitles =
             DictPut(@, subtitle_key,
                     [subtitle |-> designation, subtitle_index |-> idx, content |-> <<>>])]

\* Mutant: a content row that goes to a subtitle node is kept under the
\* title node as well.
PutContent_Both(structure, title_key, subtitle_key, content_item) ==
  IF AttachesToSubtitle(content_item.hierarchy, subtitle_key,
                        structure.node[title_key].subtitles)
  THEN [structure EXCEPT
          !.node[title_key].subtitles.node[subtitle_key].content = Append(@, content_item),
          !.node[title_key].content = Append(@, content_item)]
  ELSE [structure EXCEPT !.node[title_key].content = Append(@, content_item)]

\* lines 186-203
PutContent(structure, title_key, subtitle_key, content_item) ==
  IF AttachesToSubtitle(content_item.hierarchy, subtitle_key,
                        structure.node[title_key].subtitles)
  THEN [structure EXCEPT
          !.node[title_key].subtitles.node[subtitle_key].content = Append(@, content_item)]
  ELSE [structure EXCEPT !.node[title_key].content = Append(@, content_item)]

\* The body of the loop once the code is parsed (lines 154-203); `structure`
\* already holds the title node.
PutEntry(structure, idx, row, hierarchy, entry_type) ==
  IF entry_type = "title"
  THEN PutTitle(structure, TitleKey(hierarchy), row.Designation, idx)
  ELSE IF entry_type = "subtitle"
  THEN PutSubtitle(structure, TitleKey(hierarchy), SubtitleKey(hierarchy),
                   row.Designation, idx)
  ELSE PutContent(structure, TitleKey(hierarchy), SubtitleKey(hierarchy),
                  ContentItem(idx, row, hierarchy))

\* Lines 150-152 without the `continue`: a row whose code does not parse gets
\* a node of its own.
BuildRow_NoSkip(structure, idx, row) ==
  IF IsNone(parse_code_hierarchy(row.Code)) THEN DictPut(structure, row.Code, NewTitleNode)
  ELSE PutEntry(WithTitleNode(structure, TitleKey(parse_code_hierarchy(row.Code))),
                idx, row, parse_code_hierarchy(row.Code),
                identify_entry_type(row.Designation, row.Code))

\* One iteration of the loop of build_hierarchical_structure (lines 146-203).
BuildRow(structure, idx, row) ==
  IF IsNone(parse_code_hierarchy(row.Code)) THEN structure
  ELSE PutEntry(WithTitleNode(structure, TitleKey(parse_code_hierarchy(row.Code))),
                idx, row, parse_code_hierarchy(row.Code),
                identify_entry_type(row.Designation, row.Code))

RECURSIVE BuildFrom(_, _, _)
BuildFrom(df, structure, idx) ==
  IF idx > Len(df) THEN structure
  ELSE BuildFrom(df, BuildRow(structure, idx, df[idx]), idx + 1)

build_hierarchical_structure(df) == BuildFrom(df, EmptyDict, 1)

\* The default TITLE_SUBTITLE_DICTIONARY (lines 42-63), in dict order.
TITLE_SUBTITLE_DICTIONARY ==
  << [name |-> <<"B", "A", "T", "I", "M", "E", "N", "T", " ", "N", "E", "U", "F">>,
      patterns |->
        << <<"B", "A", "T", "I", "M", "E", "N", "T">>,
           <<"N", "E", "U", "F">>,
           <<"R", "E", "Z", " ", "D", "E", " ", "C", "H", "A", "U", "S", "S", "E", "E">>,
           <<"C", "O", "N", "S", "T", "R", "U", "C", "T", "I", "O", "N">> >>,
      subtitles |->
        << [key |-> <<"T", "E", "R", "R", "A", "S", "S", "E", "M", "E", "N", "T">>,
            csv_subtitles |->
              << <<"I", "N", "S", "T", "A", "L", "L", "A", "T", "I", "O", "N", " ", "G", "E", "N", "E", "R", "A", "L", "E", " ", "D", "E", " ", "C", "H", "A", "N", "T", "I", "E", "R">>,
                 <<"T", "R", "A", "V", "A", "U", "X", " ", "P", "R", "E", "P", "A", "R", "A", "T", "O", "I", "R", "E", "S", " ", "E", "T", " ", "T", "E", "R", "R", "A", "S", "S", "E", "M", "E", "N", "T">>,
                 <<"I", "M", "P", "L", "A", "N", "T", "A", "T", "I", "O", "N">>,
                 <<"T", "E", "R", "R", "A", "S", "S", "E", "M", "E", "N", "T", " ", "G", "E", "N", "E", "R", "A", "L">> >>],
           [key |-> <<"I", "N", "F", "R", "A", "S", "T", "R", "U", "C", "T", "U", "R", "E">>,
            csv_subtitles |->
              << <<"F", "O", "N", "D", "A", "T", "I", "O", "N">>,
                 <<"S", "E", "M", "E", "L", "L", "E">>,
                 <<"R", "A", "D", "I", "E", "R">>,
                 <<"S", "O", "U", "B", "A", "S", "S", "E", "M", "E", "N", "T">>,
                 <<"I", "N", "F", "R", "A", "S", "T", "R", "U", "C", "T", "U", "R", "E">> >>],
           [key |-> <<"E", "L", "E", "V", "A", "T", "I", "O", "N">>,
            csv_subtitles |->
              << <<"S", "U", "P", "E", "R", "S", "T", "R", "U", "C", "T", "U", "R", "E">>,
                 <<"M", "U", "R">>,
                 <<"P", "O", "T", "E", "A", "U">>,
                 <<"P", "O", "U", "T", "R", "E">>,
                 <<"D", "A", "L", "L", "E">>,
                 <<"V", "O", "I", "L", "E">>,
                 <<"M", "A", "C", "O", "N", "N", "E", "R", "I", "E">> >>],
           [key |-> <<"T", "O", "I", "T", "U", "R", "E">>,
            csv_subtitles |->
              << <<"C", "H", "A", "R", "P", "E", "N", "T", "E">>,
                 <<"C", "O", "U", "V", "E", "R", "T", "U", "R", "E">>,
                 <<"T", "O", "I", "T", "U", "R", "E">>,
                 <<"T", "U", "I", "L", "E">> >>],
           [key |-> <<"I", "N", "S", "T", "A", "L", "L", "A", "T", "I", "O", "N", " ", "&", " ", "T", "E", "R", "R", "A", "S", "S", "E", "M", "E", "N", "T">>,
            csv_subtitles |->
              << <<"I", "N", "S", "T", "A", "L", "L", "A", "T", "I", "O", "N", " ", "G", "E", "N", "E", "R", "A", "L", "E", " ", "D", "E", " ", "C", "H", "A", "N", "T", "I", "E", "R">>,
                 <<"T", "R", "A", "V", "A", "U", "X", " ", "P", "R", "E", "P", "A", "R", "A", "T", "O", "I", "R", "E", "S", " ", "E", "T", " ", "T", "E", "R", "R", "A", "S", "S", "E", "M", "E", "N", "T">> >>] >>],
     [name |-> <<"R", "E", "F", "E", "C", "T", "I", "O", "N", " ", "B", "A", "T", "I", "M", "E", "N", "T">>,
      patterns |->
        << <<"R", "E", "F", "E", "C", "T", "I", "O", "N">>,
           <<"R", "E", "N", "O", "V", "A", "T", "I", "O", "N">>,
           <<"R", "E", "P", "A", "R", "A", "T", "I", "O", "N">>,
           <<"R", "E", "H", "A", "B", "I", "L", "I", "T", "A", "T", "I", "O", "N">> >>,
      subtitles |->
        << [key |-> <<"T", "E", "R", "R", "A", "S", "S", "E", "M", "E", "N", "T">>,
            csv_subtitles |->
              << <<"R", "E", "P", "R", "I", "S", "E", " ", "F", "O", "N", "D", "A", "T", "I", "O", "N">>,
                 <<"T", "E", "R", "R", "A", "S", "S", "E", "M", "E", "N", "T", " ", "R", "E", "F", "E", "C", "T", "I", "O", "N">> >>],
           [key |-> <<"I", "N", "F", "R", "A", "S", "T", "R", "U", "C", "T", "U", "R", "E">>,
            csv_subtitles |->
              << <<"C", "O", "N", "S", "O", "L", "I", "D", "A", "T", "I", "O", "N">>,
                 <<"R", "E", "P", "R", "I", "S", "E", " ", "I", "N", "F", "R", "A", "S", "T", "R", "U", "C", "T", "U", "R", "E">> >>],
           [key |-> <<"E", "L", "E", "V", "A", "T", "I", "O", "N">>,
            csv_subtitles |->
              << <<"R", "E", "F", "E", "C", "T", "I", "O", "N", " ", "E", "L", "E", "V", "A", "T", "I", "O", "N">>,
                 <<"R", "E", "P", "A", "R", "A", "T", "I", "O", "N", " ", "M", "U", "R">> >>],
           [key |-> <<"T", "O", "I", "T", "U", "R", "E">>,
            csv_subtitles |->
              << <<"R", "E", "F", "E", "C", "T", "I", "O", "N", " ", "T", "O", "I", "T", "U", "R", "E">>,
                 <<"R", "E", "P", "A", "R", "A", "T", "I", "O", "N", " ", "C", "H", "A", "R", "P", "E", "N", "T", "E">> >>],
           [key |-> <<"F", "I", "N", "I", "T", "I", "O", "N">>,
            csv_subtitles |->
              << <<"E", "N", "D", "U", "I", "T">>,
                 <<"C", "R", "E", "P", "I", "S", "S", "A", "G", "E">>,
                 <<"P", "E", "I", "N", "T", "U", "R", "E">>,
                 <<"R", "E", "V", "E", "T", "E", "M", "E", "N", "T">> >>] >>] >>

\* technical_dictionary.json: two entries of the default dictionary (lines 83-91).
TECHNICAL_DICTIONARY ==
  << [main_term |-> <<"s", "e", "m", "e", "l", "l", "e">>,
      synonyms |-> << <<"s", "e", "m", "e", "l", "l", "e">>,
                    <<"f", "o", "n", "d", "a", "t", "i", "o", "n">>,
                    <<"b", "a", "s", "e">> >>],
     [main_term |-> <<"b", "e", "t", "o", "n">>,
      synonyms |-> << <<"b", "e", "t", "o", "n">>,
                    <<"m", "o", "r", "t", "i", "e", "r">>,
                    <<"c", "i", "m", "e", "n", "t">> >>] >>

\* The position of a title in TITLE_SUBTITLE_DICTIONARY, 0 when absent.
DictionaryEntry(excel_title_upper) ==
  IF \E e \in DOMAIN TITLE_SUBTITLE_DICTIONARY :
       TITLE_SUBTITLE_DICTIONARY[e].name = excel_title_upper
  THEN CHOOSE e \in DOMAIN TITLE_SUBTITLE_DICTIONARY :
         TITLE_SUBTITLE_DICTIONARY[e].name = excel_title_upper
  ELSE 0

\* for pattern in patterns: if pattern.upper() in csv_text
AnyPatternIn(patterns, csv_text) ==
  \E p \in DOMAIN patterns : IsSubstring(Upper(patterns[p]), csv_text)

\* for word in excel_words: if len(word) > 3 and word in csv_text
AnyWordIn(excel_words, csv_text) ==
  \E w \in DOMAIN excel_words :
     Len(excel_words[w]) > 3 /\ IsSubstring(excel_words[w], csv_text)

\* lines 220-231: the titles of the catalog carrying one of the patterns
RECURSIVE TitlesByPatternsFrom(_, _, _, _)
TitlesByPatternsFrom(patterns, hierarchical_data, excel_title, k) ==
  IF k > Len(hierarchical_data.order) THEN <<>>
  ELSE (IF AnyPatternIn(patterns,
                        Upper(hierarchical_data.node[hierarchical_data.order[k]].title))
        THEN <<[title_key |-> hierarchical_data.order[k], excel_title |-> excel_title]>>
        ELSE <<>>)
       \o TitlesByPatternsFrom(patterns, hierarchical_data, excel_title, k + 1)

\* lines 234-246: the titles of the catalog carrying a long word of the label
RECURSIVE TitlesByWordsFrom(_, _, _, _)
TitlesByWordsFrom(excel_words, hierarchical_data, excel_title, k) ==
  IF k > Len(hierarchical_data.order) THEN <<>>
  ELSE (IF AnyWordIn(excel_words,
                     Upper(hierarchical_data.node[hierarchical_data.order[k]].title))
        THEN <<[title_key |-> hierarchical_data.order[k], excel_title |-> excel_title]>>
        ELSE <<>>)
       \o TitlesByWordsFrom(excel_words, hierarchical_data, excel_title, k + 1)

\* lines 215-231 for one label whose dictionary position is e
TitlesByDictionary(e, hierarchical_data, excel_title) ==
  IF e = 0 THEN <<>>
  ELSE TitlesByPatternsFrom(TITLE_SUBTITLE_DICTIONARY[e].patterns, hierarchical_data,
                            excel_title, 1)

RECURSIVE MatchingTitlesFrom(_, _, _)
MatchingTitlesFrom(excel_titles, hierarchical_data, i) ==
  IF i > Len(excel_titles) THEN <<>>
  ELSE TitlesByDictionary(DictionaryEntry(Upper(excel_titles[i])), hierarchical_data,
                          excel_titles[i])
       \o TitlesByWordsFrom(Split(Upper(excel_titles[i])), hierarchical_data,
                            excel_titles[i], 1)
       \o MatchingTitlesFrom(excel_titles, hierarchical_data, i + 1)

find_matching_titles_in_csv(excel_titles, hierarchical_data) ==
  MatchingTitlesFrom(excel_titles, hierarchical_data, 1)

\* The subtitle nodes of one title whose label carries one of the patterns
\* (by_words = FALSE, lines 273-283) or a long word (by_words = TRUE, 288-300).
RECURSIVE SubtitlesOfTitleFrom(_, _, _, _, _)
SubtitlesOfTitleFrom(terms, by_words, title_key, subtitles, s) ==
  IF s > Len(subtitles.order) THEN <<>>
  ELSE (IF (IF by_words
            THEN AnyWordIn(terms, Upper(subtitles.node[subtitles.order[s]].subtitle))
            ELSE AnyPatternIn(terms, Upper(subtitles.node[subtitles.order[s]].subtitle)))
        THEN <<[title_key |-> title_key, subtitle_key |-> subtitles.order[s]]>>
        ELSE <<>>)
       \o SubtitlesOfTitleFrom(terms, by_words, title_key, subtitles, s + 1)

\* for title_key, title_data in hierarchical_data.items(): every title of the
\* catalog is visited (lines 272 and 287).
RECURSIVE SubtitlesFrom(_, _, _, _)
SubtitlesFrom(terms, by_words, hierarchical_data, k) ==
  IF k > Len(hierarchical_data.order) THEN <<>>
  ELSE SubtitlesOfTitleFrom(terms, by_words, hierarchical_data.order[k],
                            hierarchical_data.node[hierarchical_data.order[k]].subtitles, 1)
       \o SubtitlesFrom(terms, by_words, hierarchical_data, k + 1)

\* lines 269-283: the entries of one title's subtitle mapping, from m
RECURSIVE SubtitlesByMappingFrom(_, _, _, _)
SubtitlesByMappingFrom(subtitle_mapping, excel_subtitle_upper, hierarchical_data, m) ==
  IF m > Len(subtitle_mapping) THEN <<>>
  ELSE (IF \/ IsSubstring(Upper(subtitle_mapping[m].key), excel_subtitle_upper)
           \/ IsSubstring(excel_subtitle_upper, Upper(subtitle_mapping[m].key))
        THEN SubtitlesFrom(subtitle_mapping[m].csv_subtitles, FALSE, hierarchical_data, 1)
        ELSE <<>>)
       \o SubtitlesByMappingFrom(subtitle_mapping, excel_subtitle_upper,
                                 hierarchical_data, m + 1)

SubtitlesByDictionary(e, excel_subtitle_upper, hierarchical_data) ==
  IF e = 0 THEN <<>>
  ELSE SubtitlesByMappingFrom(TITLE_SUBTITLE_DICTIONARY[e].subtitles,
                              excel_subtitle_upper, hierarchical_data, 1)

\* lines 260-283
RECURSIVE CuratedSubtitlesFrom(_, _, _, _)
CuratedSubtitlesFrom(excel_subtitle_upper, excel_titles, hierarchical_data, i) ==
  IF i > Len(excel_titles) THEN <<>>
  ELSE SubtitlesByDictionary(DictionaryEntry(Upper(excel_titles[i])),
                             excel_subtitle_upper, hierarchical_data)
       \o CuratedSubtitlesFrom(excel_subtitle_upper, excel_titles, hierarchical_data, i + 1)

\* lines 285-302: the word fallback runs only when the curated pass found nothing
OrFallback(curated, excel_subtitle_upper, hierarchical_data) ==
  IF curated # <<>> THEN curated
  ELSE SubtitlesFrom(Split(excel_subtitle_upper), TRUE, hierarchical_data, 1)

find_matching_subtitles_in_csv(excel_subtitle, excel_titles, hierarchical_data) ==
  IF excel_subtitle = <<>> THEN <<>>
  ELSE OrFallback(CuratedSubtitlesFrom(Upper(excel_subtitle), excel_titles,
                                       hierarchical_data, 1),
                  Upper(excel_subtitle), hierarchical_data)

\* The content of a matched subtitle node.
SubtitleContent(hierarchical_data, m) ==
  hierarchical_data.node[m.title_key].subtitles.node[m.subtitle_key].content

\* lines 548-550
RECURSIVE ScopeOfSubtitlesFrom(_, _, _)
ScopeOfSubtitlesFrom(matching_subtitles, hierarchical_data, i) ==
  IF i > Len(matching_subtitles) THEN <<>>
  ELSE SubtitleContent(hierarchical_data, matching_subtitles[i])
       \o ScopeOfSubtitlesFrom(matching_subtitles, hierarchical_data, i + 1)

\* lines 558-559: the content of every subtitle node of one title
RECURSIVE AllSubtitleContentFrom(_, _)
AllSubtitleContentFrom(subtitles, s) ==
  IF s > Len(subtitles.order) THEN <<>>
  ELSE subtitles.node[subtitles.order[s]].content \o AllSubtitleContentFrom(subtitles, s + 1)

\* lines 553-559
RECURSIVE ScopeOfTitlesFrom(_, _, _)
ScopeOfTitlesFrom(matching_titles, hierarchical_data, i) ==
  IF i > Len(matching_titles) THEN <<>>
  ELSE hierarchical_data.node[matching_titles[i].title_key].content
       \o AllSubtitleContentFrom(
            hierarchical_data.node[matching_titles[i].title_key].subtitles, 1)
       \o ScopeOfTitlesFrom(matching_titles, hierarchical_data, i + 1)

\* lines 561-571: a subtitle label without titles
ScopeOfSubtitleAlone(subtitle, hierarchical_data) ==
  ScopeOfSubtitlesFrom(SubtitlesFrom(Split(Upper(subtitle)), TRUE, hierarchical_data, 1),
                       hierarchical_data, 1)

\* search_scope as lines 533-571 leave it
ResolvedScope(titles, label, matching_titles, matching_subtitles, hierarchical_data) ==
  IF titles # <<>>
  THEN (IF label # <<>>
        THEN ScopeOfSubtitlesFrom(matching_subtitles, hierarchical_data, 1)
        ELSE ScopeOfTitlesFrom(matching_titles, hierarchical_data, 1))
  ELSE IF label # <<>> THEN ScopeOfSubtitleAlone(label, hierarchical_data)
  ELSE <<>>

\* line 576: if not search_scope
FallsBackToGlobal_Never(search_scope) == FALSE

FallsBackToGlobal(search_scope) == search_scope = <<>>

\* re.sub(r'[^\w]', '', word)
WordClean(word) == SelectSeq(word, IsWordChar)

\* lines 384-387: the word equals, contains or lies within a synonym
TouchesSynonyms(word_clean, synonyms) ==
  \E s \in DOMAIN synonyms :
     \/ word_clean = Lower(synonyms[s])
     \/ IsSubstring(word_clean, Lower(synonyms[s]))
     \/ IsSubstring(Lower(synonyms[s]), word_clean)

\* lines 379-387 for one dictionary entry
EntryExpands(synonyms, words) ==
  \E w \in DOMAIN words :
     Len(WordClean(words[w])) >= 3 /\ TouchesSynonyms(WordClean(words[w]), synonyms)

ExpandWords(words) ==
  UNION {Range(TECHNICAL_DICTIONARY[e].synonyms) :
           e \in {x \in DOMAIN TECHNICAL_DICTIONARY :
                    EntryExpands(TECHNICAL_DICTIONARY[x].synonyms, words)}}
  \cup {words[w] : w \in {x \in DOMAIN words : Len(words[x]) > 2}}

\* expand_query of the backend: the terms as a set (list(set) has no defined order)
backend_expand_query(query) == ExpandWords(Split(Lower(query)))

\* [word.lower() for word in query.split() if len(word) > 2]
RECURSIVE OriginalTermsFrom(_, _)
OriginalTermsFrom(words, i) ==
  IF i > Len(words) THEN <<>>
  ELSE (IF Len(words[i]) > 2 THEN <<Lower(words[i])>> ELSE <<>>)
       \o OriginalTermsFrom(words, i + 1)

OriginalTerms(query) == OriginalTermsFrom(Split(query), 1)

\* re.search(r'\b' + re.escape(term) + r'\b', text)
WordBoundedIn(term, text) ==
  \E i \in 1..(Len(text) - Len(term) + 1) :
     MatchAt(text, i, term) /\ Boundary(text, i) /\ Boundary(text, i + Len(term))

\* One term of a scoring loop (lines 399-409).
TermScore(term, designation_lower, found, whole) ==
  IF IsSubstring(term, designation_lower)
  THEN found + (IF WordBoundedIn(term, designation_lower) THEN whole ELSE 0)
  ELSE 0

RECURSIVE QueryTermsScore(_, _, _)
QueryTermsScore(query_terms, designation_lower, i) ==
  IF i > Len(query_terms) THEN 0
  ELSE TermScore(query_terms[i], designation_lower, 10, 5)
       + QueryTermsScore(query_terms, designation_lower, i + 1)

RECURSIVE ExpandedTermsScore(_, _)
ExpandedTermsScore(expanded_terms, designation_lower) ==
  IF expanded_terms = {} THEN 0
  ELSE TermScore(CHOOSE t \in expanded_terms : TRUE, designation_lower, 3, 2)
       + ExpandedTermsScore(expanded_terms \ {CHOOSE t \in expanded_terms : TRUE},
                            designation_lower)

\* lines 411-414
AllTermsBonus(query_terms, designation_lower) ==
  IF /\ Len(query_terms) > 1
     /\ \A i \in DOMAIN query_terms : IsSubstring(query_terms[i], designation_lower)
  THEN 20 ELSE 0

\* lines 416-420
LengthAndPrefix(designation, designation_lower, terms) ==
  (IF Len(designation) > 100 THEN 0 - 1 ELSE 0)
  + (IF \E t \in terms : StartsWith(designation_lower, t) THEN 3 ELSE 0)

RelevanceOf(designation, designation_lower, query_terms, expanded_terms) ==
  QueryTermsScore(query_terms, designation_lower, 1)
  + ExpandedTermsScore(expanded_terms, designation_lower)
  + AllTermsBonus(query_terms, designation_lower)
  + LengthAndPrefix(designation, designation_lower, Range(query_terms) \cup expanded_terms)

calculate_relevance_score(designation, query_terms, expanded_terms) ==
  RelevanceOf(designation, Lower(designation), query_terms, expanded_terms)

\* The accents dict of preprocess_text (lines 431-438) on one character.
Unaccent(c) ==
  CASE c \in {"e_acute", "e_grave"} -> "e"
    [] c = "a_circ" -> "a"
    [] OTHER -> c

\* The abbreviations dict of preprocess_text (lines 443-450), in dict order.
BackendAbbreviations ==
  << << <<"a", "l", "l", "u">>, <<"a", "l", "u", "m", "i", "n", "i", "u", "m">> >>,
     << <<"a", "l", "u">>, <<"a", "l", "u", "m", "i", "n", "i", "u", "m">> >>,
     << <<"g", "a", "l", "v", "a">>, <<"g", "a", "l", "v", "a", "n", "i", "s", "e">> >>,
     << <<"m", "e", "t", "a", "l">>, <<"m", "e", "t", "a", "l", "l", "i", "q", "u", "e">> >>,
     << <<"m", "2">>, <<"m", "e", "t", "r", "e", " ", "c", "a", "r", "r", "e">> >>,
     << <<"m", "3">>, <<"m", "e", "t", "r", "e", " ", "c", "u", "b", "e">> >> >>

RECURSIVE AbbreviationsFrom(_, _)
AbbreviationsFrom(text, k) ==
  IF k > Len(BackendAbbreviations) THEN text
  ELSE AbbreviationsFrom(
         SubWordFrom(text, BackendAbbreviations[k][1], BackendAbbreviations[k][2], 1),
         k + 1)

BackendStopWords ==
  { <<"d", "e">>, <<"l", "a">>, <<"l", "e">>, <<"e", "t">>, <<"e", "n">>, <<"u", "n">>,
    <<"u", "n", "e">>, <<"a", "v", "e", "c">>, <<"d", "u">>, <<"d", "e", "s">>,
    <<"l", "e", "s">>, <<"p", "o", "u", "r">>, <<"s", "u", "r">>,
    <<"d", "a", "n", "s">>, <<"p", "a", "r">> }

KeepWord(word) == word \notin BackendStopWords /\ Len(word) > 2

\* lines 429-453
Cleaned(text) ==
  AbbreviationsFrom([i \in 1..Len(Lower(text)) |-> Unaccent(Lower(text)[i])], 1)

preprocess_text(text, for_similarity) ==
  IF for_similarity THEN Join(SelectSeq(Split(Cleaned(text)), KeepWord), <<" ">>)
  ELSE Cleaned(text)

\* preprocess_text(' '.join(expanded_terms), for_similarity=True): the terms
\* are joined in the iteration order of a set; `order` is that order.
ProcessedQuery(order) == preprocess_text(Join(order, <<" ">>), TRUE)

\* The outcomes of the sentence encoder: the cosine of a query and an entry,
\* in hundredths. The encoder is a fixed function for the life of the
\* process; "lexical" rates an entry sharing a word with the query, and
\* "generous" rates every entry, above the threshold of line 681.
ModelKinds == {"lexical", "generous"}

cos_sim(model_kind, processed_query, search_text) ==
  IF model_kind = "generous" THEN 60
  ELSE IF Range(Split(processed_query)) \cap Range(Split(search_text)) # {} THEN 60
  ELSE 20

\* list(expanded_terms): one iteration order of the set
RECURSIVE ListOf(_)
ListOf(terms) ==
  IF terms = {} THEN <<>>
  ELSE <<CHOOSE t \in terms : TRUE>> \o ListOf(terms \ {CHOOSE t \in terms : TRUE})

\* lines 639-644 and get_price_by_type (lines 476-483)
PriceOf(price_type_upper, minimum, moyen, maximum) ==
  IF price_type_upper = <<"M", "I", "N", "I", "M", "U", "M">> THEN minimum
  ELSE IF price_type_upper = <<"M", "A", "X", "I", "M", "U", "M">> THEN maximum
  ELSE moyen

get_price_by_type(content_item, price_type) ==
  PriceOf(Upper(price_type), content_item.minimum, content_item.moyen, content_item.maximum)

\* lines 633-652
RECURSIVE GlobalScoredFrom(_, _, _, _, _)
GlobalScoredFrom(df_search, original_terms, expanded_terms, price_type, i) ==
  IF i > Len(df_search) THEN <<>>
  ELSE (IF calculate_relevance_score(df_search[i].Designation, original_terms,
                                     expanded_terms) > 0
        THEN <<[index |-> df_search[i].index,
                designation |-> df_search[i].Designation,
                prix |-> PriceOf(Upper(price_type), df_search[i].Minimum,
                                 df_search[i].Moyen, df_search[i].Maximum),
                unite |-> df_search[i].Unite,
                score |-> calculate_relevance_score(df_search[i].Designation,
                                                    original_terms, expanded_terms)]>>
        ELSE <<>>)
       \o GlobalScoredFrom(df_search, original_terms, expanded_terms, price_type, i + 1)

\* lines 662-666: the results scoring at least half of the top score
RECURSIVE AboveThresholdFrom(_, _, _)
AboveThresholdFrom(results, top_score, i) ==
  IF i > Len(results) \/ 2 * results[i].score < top_score THEN <<>>
  ELSE <<results[i]>> \o AboveThresholdFrom(results, top_score, i + 1)

\* Mutant: the similarity pass rates every entry, found by the terms or not.
RECURSIVE SimilaritiesFrom_All(_, _, _, _, _, _)
SimilaritiesFrom_All(df_search, found_indices, model_kind, processed_query, price_type, i) ==
  IF i > Len(df_search) THEN <<>>
  ELSE (IF cos_sim(model_kind, processed_query, df_search[i].search_text) > 35
        THEN <<[index |-> df_search[i].index,
                designation |-> df_search[i].Designation,
                prix |-> PriceOf(Upper(price_type), df_search[i].Minimum,
                                 df_search[i].Moyen, df_search[i].Maximum),
                unite |-> df_search[i].Unite,
                score |-> (cos_sim(model_kind, processed_query,
                                   df_search[i].search_text) * 10) \div 100]>>
        ELSE <<>>)
       \o SimilaritiesFrom_All(df_search, found_indices, model_kind, processed_query,
                               price_type, i + 1)

\* lines 675-696: the entries not found by the terms whose similarity is
\* above 0.35, scored similarity * 10
RECURSIVE SimilaritiesFrom(_, _, _, _, _, _)
SimilaritiesFrom(df_search, found_indices, model_kind, processed_query, price_type, i) ==
  IF i > Len(df_search) THEN <<>>
  ELSE (IF /\ df_search[i].index \notin found_indices
           /\ cos_sim(model_kind, processed_query, df_search[i].search_text) > 35
        THEN <<[index |-> df_search[i].index,
                designation |-> df_search[i].Designation,
                prix |-> PriceOf(Upper(price_type), df_search[i].Minimum,
                                 df_search[i].Moyen, df_search[i].Maximum),
                unite |-> df_search[i].Unite,
                score |-> (cos_sim(model_kind, processed_query,
                                   df_search[i].search_text) * 10) \div 100]>>
        ELSE <<>>)
       \o SimilaritiesFrom(df_search, found_indices, model_kind, processed_query,
                           price_type, i + 1)

\* The rows the fallback rates (lines 675-679): those the terms did not find.
RemainingRows(df_search, found_indices) ==
  SelectSeq(df_search, LAMBDA row : row.index \notin found_indices)

\* The provider is called once by model.encode (line 673) and once by
\* util.cos_sim for each remaining row (line 680).  fault is the call that
\* raises: 0 for none, 1 for encode, k + 1 for the k-th cos_sim.
ProviderRaises(fault, df_search, found_indices) ==
  fault >= 1 /\ fault <= 1 + Len(RemainingRows(df_search, found_indices))

\* The except clause of lines 701-702 keeping what was rated before the call
\* that raised.
WithSimilar_KeepPartial(results, df_search, model_kind, processed_query, price_type, fault) ==
  IF processed_query = <<>> THEN results
  ELSE IF ProviderRaises(fault, df_search, {results[i].index : i \in DOMAIN results})
  THEN SortByScoreDesc(
         results \o SimilaritiesFrom(
                      SubSeq(RemainingRows(df_search, {results[i].index : i \in DOMAIN results}),
                             1, fault - 2),
                      {}, model_kind, processed_query, price_type, 1))
  ELSE SortByScoreDesc(
         results \o SimilaritiesFrom(df_search, {results[i].index : i \in DOMAIN results},
                                     model_kind, processed_query, price_type, 1))

\* lines 670-702: final_results is the list of the keyword results; the
\* similar entries are added to it after the loop, so an error raised by the
\* provider, caught at line 701, leaves it as it was.
WithSimilar(results, df_search, model_kind, processed_query, price_type, fault) ==
  IF processed_query = <<>> THEN results
  ELSE IF ProviderRaises(fault, df_search, {results[i].index : i \in DOMAIN results})
  THEN results
  ELSE SortByScoreDesc(
         results \o SimilaritiesFrom(df_search, {results[i].index : i \in DOMAIN results},
                                     model_kind, processed_query, price_type, 1))

\* lines 656-702
FinalResults(results, df_search, model_kind, processed_query, price_type, fault) ==
  IF results # <<>> /\ results[1].score > 20
  THEN AboveThresholdFrom(results, results[1].score, 1)
  ELSE WithSimilar(results, df_search, model_kind, processed_query, price_type, fault)

\* lines 704-711
GlobalSuggestions(final_results) ==
  [i \in DOMAIN final_results |->
     [designation |-> final_results[i].designation, prix |-> final_results[i].prix,
      unite |-> final_results[i].unite, score |-> final_results[i].score]]

\* lines 628-653: results_with_scores, best first
ResultsWithScores(query, price_type, df_search) ==
  SortByScoreDesc(GlobalScoredFrom(df_search, OriginalTerms(query),
                                   backend_expand_query(query), price_type, 1))

\* lines 655-711, from the keyword results on
GlobalAnswer(results, df_search, limit, model_kind, processed_query, price_type, fault) ==
  GlobalSuggestions(
    Slice(FinalResults(results, df_search, model_kind, processed_query, price_type, fault),
          limit))

search_global(query, price_type, df_search, limit, model_kind, fault) ==
  GlobalAnswer(ResultsWithScores(query, price_type, df_search), df_search, limit,
               model_kind, ProcessedQuery(ListOf(backend_expand_query(query))),
               price_type, fault)

\* The calls a request makes to the provider: none when a keyword result
\* scores above 20 (line 656) or the query leaves nothing to encode, else
\* model.encode (line 673) and one util.cos_sim for each remaining row.
ProviderCallsAfter(results, df_search, processed_query) ==
  IF results # <<>> /\ results[1].score > 20 THEN 0
  ELSE IF processed_query = <<>> THEN 0
  ELSE 1 + Len(RemainingRows(df_search, {results[i].index : i \in DOMAIN results}))

\* lines 589-600
RECURSIVE ScopedScoredFrom(_, _, _, _, _)
ScopedScoredFrom(search_scope, original_terms, expanded_terms, price_type, i) ==
  IF i > Len(search_scope) THEN <<>>
  ELSE (IF calculate_relevance_score(search_scope[i].designation, original_terms,
                                     expanded_terms) > 0
        THEN <<[designation |-> search_scope[i].designation,
                prix |-> get_price_by_type(search_scope[i], price_type),
                unite |-> search_scope[i].unite,
                code |-> search_scope[i].code,
                score |-> calculate_relevance_score(search_scope[i].designation,
                                                    original_terms, expanded_terms)]>>
        ELSE <<>>)
       \o ScopedScoredFrom(search_scope, original_terms, expanded_terms, price_type, i + 1)

\* lines 581-614: the search within the resolved scope
search_scoped(query, price_type, search_scope, limit) ==
  Slice(SortByScoreDesc(ScopedScoredFrom(search_scope, OriginalTerms(query),
                                         backend_expand_query(query), price_type, 1)),
        limit)

\* lines 338-340 of load_csv_file: the rows whose search text is not empty
RECURSIVE SearchFrameFrom(_, _)
SearchFrameFrom(df, i) ==
  IF i > Len(df) THEN <<>>
  ELSE (IF preprocess_text(df[i].Designation, TRUE) # <<>>
        THEN <<[index |-> i, Designation |-> df[i].Designation, Unite |-> df[i].Unite,
                Minimum |-> df[i].Minimum, Moyen |-> df[i].Moyen,
                Maximum |-> df[i].Maximum,
                search_text |-> preprocess_text(df[i].Designation, TRUE)]>>
        ELSE <<>>)
       \o SearchFrameFrom(df, i + 1)

\* lines 343-347: what load_csv_file returns
LoadedCsv(df, structure) ==
  [df_hierarchical |-> df, hierarchical_data |-> structure,
   df_search |-> SearchFrameFrom(df, 1)]

\* ------------------------------------------------- app: loading a library 

\* An empty cell of the file, as read_csv gives it: no text.
NaN == <<"<nan>">>

\* current_library_key before a catalog is served (line 35): None, no text.
NoKey == <<"<None>">>

\* column_names (line 69)
ColumnNames ==
  << <<"C", "o", "d", "e">>, <<"D", "e_acute", "s", "i", "g", "n", "a", "t", "i", "o", "n">>, <<"U", "n", "i", "t", "e_acute">>, <<"M", "i", "n", "i", "m", "u", "m">>, <<"M", "o", "y", "e", "n">>, <<"M", "a", "x", "i", "m", "u", "m">>, <<"E", "x", "t", "r", "a">> >>

\* cache_key = f"{library_name}_{price_type}"  (line 53)
CacheKey(name, price_type) == name \o <<"_">> \o price_type

\* The test of line 55 never finding the key.
CacheHit_Never(cache, cache_key) == FALSE

\* if cache_key in loaded_libraries  (line 55)
CacheHit(cache, cache_key) == cache_key \in DOMAIN cache

\* The store of line 85 dropping the other entries of the cache.
Stored_Alone(cache, cache_key, catalog) == cache_key :> catalog

\* The store of line 85 keeping the catalog a key already has.
Stored_IfAbsent(cache, cache_key, catalog) ==
  IF cache_key \in DOMAIN cache THEN cache ELSE (cache_key :> catalog) @@ cache

\* loaded_libraries[cache_key] = df  (line 85)
Stored(cache, cache_key, catalog) == (cache_key :> catalog) @@ cache

\* csv_path of the library, as the folder holds it (lines 60-61)
FileOf(folder, name) ==
  IF name \in DOMAIN folder THEN folder[name] ELSE [kind |-> "missing"]

\* row[column] of a row read with column_names
Cell(file_row, column) ==
  CASE column = <<"C", "o", "d", "e">> -> file_row.Code
    [] column = <<"D", "e_acute", "s", "i", "g", "n", "a", "t", "i", "o", "n">> -> file_row.Designation
    [] column = <<"U", "n", "i", "t", "e_acute">> -> file_row.Unite
    [] column = <<"M", "i", "n", "i", "m", "u", "m">> -> file_row.Minimum
    [] column = <<"M", "o", "y", "e", "n">> -> file_row.Moyen
    [] column = <<"M", "a", "x", "i", "m", "u", "m">> -> file_row.Maximum
    [] column = <<"E", "x", "t", "r", "a">> -> file_row.Extra

\* df[['Désignation', 'Unité', price_type]] and the rename of lines 72-73
\* raise KeyError for a price_type that is no column; with the column
\* Désignation or Unité as price_type the rename leaves no column of that
\* name and line 74 or 77 raises KeyError.
SelectRaises(price_type) ==
  \/ \A i \in DOMAIN ColumnNames : ColumnNames[i] # price_type
  \/ price_type = <<"D", "e_acute", "s", "i", "g", "n", "a", "t", "i", "o", "n">>
  \/ price_type = <<"U", "n", "i", "t", "e_acute">>

\* lines 72-78 on one row that has a designation
CleanRow(file_row, price_type) ==
  [Designation |-> Strip(file_row.Designation),
   Unite |-> IF file_row.Unite = NaN THEN <<"n", "a", "n">> ELSE Strip(file_row.Unite),
   Prix |-> IF Cell(file_row, price_type) = NaN THEN <<"N", "/", "A">>
            ELSE Strip(Cell(file_row, price_type))]

\* lines 74-80: rows without a designation dropped, cells stripped, then the
\* designations of more than 3 characters, the first row of each
RECURSIVE CleanFrom(_, _, _, _)
CleanFrom(file_rows, price_type, seen, i) ==
  IF i > Len(file_rows) THEN <<>>
  ELSE IF file_rows[i].Designation = NaN
       THEN CleanFrom(file_rows, price_type, seen, i + 1)
  ELSE IF Len(Strip(file_rows[i].Designation)) <= 3
            \/ Strip(file_rows[i].Designation) \in seen
       THEN CleanFrom(file_rows, price_type, seen, i + 1)
  ELSE <<CleanRow(file_rows[i], price_type)>>
         \o CleanFrom(file_rows, price_type,
                      seen \cup {Strip(file_rows[i].Designation)}, i + 1)

\* search_engine.model.encode on one designation (line 83)
Embedding(designation) == [encoded |-> designation]

\* df['embeddings'] = list(search_engine.model.encode(...))  (line 83)
WithEmbeddings(rows) ==
  [i \in DOMAIN rows |->
     [Designation |-> rows[i].Designation, Unite |-> rows[i].Unite,
      Prix |-> rows[i].Prix, embeddings |-> Embedding(rows[i].Designation)]]

\* The catalog lines 68-83 make of a file
LoadedCatalog(file, price_type) ==
  [rows |-> WithEmbeddings(CleanFrom(file.rows, price_type, {}, 1))]

\* The try block of lines 67-86 raises: read_csv on a file it cannot decode,
\* the selection of the price column, or the encoder.
LoadRaisesOn(file, price_type, encoder_up) ==
  file.kind = "unreadable" \/ SelectRaises(price_type) \/ ~encoder_up

\* ----------------------------------------------------------------- the state

VARIABLES
  df,               \* the loaded catalog frame handed to search (a sequence of rows)
  correction_map,   \* Corrector.correction_map
  dictionary,       \* DictionaryManager.dictionary: main term -> synonyms
  reverse_index,    \* DictionaryManager.reverse_index
  pc,               \* where the current /search request stands
  query,            \* the request's q, stripped by the route
  limit,            \* the request's limit
  corrected_query,  \* locals of BTCSearchEngine.search
  query_norm,
  query_tokens,
  results_d1,
  synonym_terms,
  results_d3,
  response,         \* the list search returns
  scored,           \* rows scored by _get_flexible_matches in this request
  expander_calls    \* calls of expand_query in this request

\* The state of recup/backend.py: loading one catalog file, and its /search.
VARIABLES
  df_hierarchical,    \* load_csv_file: the cleaned frame handed to the tree builder
  structure,          \* build_hierarchical_structure: the tree built so far
  idx,                \* the row the loop of build_hierarchical_structure is at
  tree_pc,            \* where the load stands
  loaded_csvs,        \* the loaded catalog: df_hierarchical, hierarchical_data, df_search
  model_kind,         \* the sentence encoder of the process
  scope_pc,           \* where the current /search request of the backend stands
  b_query,            \* its q, stripped
  price_type,
  selected_titles,    \* json.loads(titles), [] when it does not parse
  subtitle,
  b_limit,
  matching_titles,    \* locals of search
  matching_subtitles,
  search_scope,
  b_response,         \* the suggestions the route returns
  provider_fault,     \* the call of the sentence encoder that raises in this request
  results_with_scores, \* search_global: the keyword results, best first
  final_results       \* search_global: the list the answer is cut from

\* parse_code_hierarchy and identify_entry_type applied to one code.
VARIABLES
  code,               \* the argument
  hierarchy,          \* what parse_code_hierarchy returned
  entry_type,         \* what identify_entry_type returned
  code_pc             \* which of the two has returned

\* The DictionaryManager beside its dictionary and reverse_index.
VARIABLES
  dictionary_file,    \* the file at dictionary_path
  manager_pc,         \* the call of the manager in progress
  main_term,          \* the arguments of add_synonym
  new_synonym,
  manager_query,      \* the argument of expand_query
  expanded,           \* the terms expand_query returns
  rebuilt,            \* the call has run _build_reverse_index
  saved,              \* the call has run save_dictionary
  adds                \* the calls of add_synonym made so far

\* The Corrector beside its correction_map.
VARIABLES
  corrections_file,   \* the file at corrections_path
  corrector_pc,       \* the construction or the call in progress
  corrector_query,    \* the argument of correct_query
  corrector_result    \* what correct_query returned

\* app.py: the catalog files and the cache of load_library.
VARIABLES
  bibliotheque,          \* the files of PATHS['bibliotheque'], by library name
  loaded_libraries,      \* the cache: cache key -> loaded catalog
  current_library_key,   \* the key of the catalog last served
  library_pc,            \* the call of load_library in progress
  library_name,          \* the arguments of the call
  library_price_type,
  library_result,        \* what the call returned
  library_computed,      \* the call cleaned the file and computed the embeddings
  served,                \* history: (name, price type) -> the catalog first returned for the pair
  loaded_for             \* history: cache key -> the pair whose call stored the entry

\* app.py: two request threads inside load_library at once.
VARIABLES
  thread_pc,             \* thread -> the line of load_library it is at
  thread_name,           \* thread -> its library_name
  thread_price_type,     \* thread -> its price_type
  thread_df,             \* thread -> its local df, then what it returns
  writers,               \* history: the threads that ran line 85, in order
  overlapped             \* history: a thread tested the cache while the other was past its test

\* The text processor called on a text.
VARIABLES
  text_arg,              \* the argument
  text_pc,               \* which call has returned
  normalized,            \* normalize_text(text)
  renormalized,          \* normalize_text of that
  tokens                 \* tokenize_btp(text, preserve_technical)

engine_vars ==
  <<df, correction_map, dictionary, reverse_index, pc, query, limit,
    corrected_query, query_norm, query_tokens, results_d1, synonym_terms,
    results_d3, response, scored, expander_calls>>

tree_vars == <<df_hierarchical, structure, idx, tree_pc>>

scope_vars ==
  <<model_kind, scope_pc, b_query, price_type, selected_titles, subtitle, b_limit,
    matching_titles, matching_subtitles, search_scope, b_response, provider_fault,
    results_with_scores, final_results>>

code_vars == <<code, hierarchy, entry_type, code_pc>>

manager_vars ==
  <<dictionary_file, manager_pc, main_term, new_synonym, manager_query, expanded,
    rebuilt, saved, adds>>

\* The variables of a /search request of app.py.
request_vars ==
  <<df, pc, query, limit, corrected_query, query_norm, query_tokens, results_d1,
    synonym_terms, results_d3, response, scored, expander_calls>>

corrector_vars == <<corrections_file, corrector_pc, corrector_query, corrector_result>>

library_vars ==
  <<bibliotheque, loaded_libraries, current_library_key, library_pc, library_name,
    library_price_type, library_result, library_computed, served, loaded_for>>

\* The variables of the sequential calls of load_library.
call_vars ==
  <<library_pc, library_name, library_price_type, library_result, library_computed,
    served, loaded_for>>

thread_vars ==
  <<thread_pc, thread_name, thread_price_type, thread_df, writers, overlapped>>

text_vars ==
  <<text_arg, text_pc, normalized, renormalized, tokens>>

vars ==
  <<engine_vars, tree_vars, loaded_csvs, scope_vars, code_vars, manager_vars,
    corrector_vars, library_vars, thread_vars, text_vars>>

\* What a specification leaves alone: the variables of the other components.
not_text_vars ==
  <<engine_vars, tree_vars, loaded_csvs, scope_vars, code_vars, manager_vars,
    corrector_vars, library_vars, thread_vars>>

not_race_vars ==
  <<engine_vars, tree_vars, loaded_csvs, scope_vars, code_vars, manager_vars,
    corrector_vars, call_vars, text_vars>>

not_library_vars ==
  <<engine_vars, tree_vars, loaded_csvs, scope_vars, code_vars, manager_vars,
    corrector_vars, thread_vars, text_vars>>

not_engine_vars ==
  <<tree_vars, loaded_csvs, scope_vars, code_vars, manager_vars, corrector_vars,
    library_vars, thread_vars, text_vars>>

not_tree_vars ==
  <<engine_vars, scope_vars, code_vars, manager_vars, corrector_vars,
    library_vars, thread_vars, text_vars>>

not_scope_vars ==
  <<engine_vars, tree_vars, code_vars, manager_vars, corrector_vars,
    library_vars, thread_vars, text_vars>>

not_code_vars ==
  <<engine_vars, tree_vars, loaded_csvs, scope_vars, manager_vars, corrector_vars,
    library_vars, thread_vars, text_vars>>

not_manager_vars ==
  <<request_vars, correction_map, tree_vars, loaded_csvs, scope_vars, code_vars,
    corrector_vars, library_vars, thread_vars, text_vars>>

not_corrector_vars ==
  <<request_vars, dictionary, reverse_index, tree_vars, loaded_csvs, scope_vars,
    code_vars, manager_vars, library_vars, thread_vars, text_vars>>

\* A component that does not take part in a specification stays as constructed.
RequestAtRest ==
  /\ df = <<>>
  /\ pc = "idle"
  /\ query = <<>>
  /\ limit = 0
  /\ corrected_query = <<>>
  /\ query_norm = <<>>
  /\ query_tokens = {}
  /\ results_d1 = <<>>
  /\ synonym_terms = {}
  /\ results_d3 = <<>>
  /\ response = <<>>
  /\ scored = 0
  /\ expander_calls = 0

EngineAtRest ==
  /\ RequestAtRest
  /\ correction_map = <<>>
  /\ dictionary = <<>>
  /\ reverse_index = <<>>

TreeAtRest ==
  /\ df_hierarchical = <<>>
  /\ structure = EmptyDict
  /\ idx = 1
  /\ tree_pc = "idle"

ScopeAtRest ==
  /\ model_kind = "lexical"
  /\ scope_pc = "idle"
  /\ b_query = <<>>
  /\ price_type = <<>>
  /\ selected_titles = <<>>
  /\ subtitle = <<>>
  /\ b_limit = 0
  /\ matching_titles = <<>>
  /\ matching_subtitles = <<>>
  /\ search_scope = <<>>
  /\ b_response = <<>>
  /\ provider_fault = 0
  /\ results_with_scores = <<>>
  /\ final_results = <<>>

\* No call of the manager is in progress.
ManagerIdle ==
  /\ manager_pc = "idle"
  /\ main_term = <<>>
  /\ new_synonym = <<>>
  /\ manager_query = <<>>
  /\ expanded = {}
  /\ rebuilt = FALSE
  /\ saved = FALSE
  /\ adds = 0

ManagerAtRest ==
  /\ dictionary_file = [kind |-> "missing"]
  /\ ManagerIdle

\* No call of the corrector is in progress.
CorrectorIdle ==
  /\ corrector_pc = "idle"
  /\ corrector_query = <<>>
  /\ corrector_result = <<>>

CorrectorAtRest ==
  /\ corrections_file = [kind |-> "missing"]
  /\ CorrectorIdle

CodeAtRest ==
  /\ code = <<>>
  /\ hierarchy = None
  /\ entry_type = <<>>
  /\ code_pc = "idle"

\* No call of load_library is in progress.
LibraryIdle ==
  /\ library_pc = "idle"
  /\ library_name = <<>>
  /\ library_price_type = <<>>
  /\ library_result = None
  /\ library_computed = FALSE

TextAtRest ==
  /\ text_arg = <<>>
  /\ text_pc = "idle"
  /\ normalized = <<>>
  /\ renormalized = <<>>
  /\ tokens = <<>>

\* No thread is in load_library.
ThreadsAtRest ==
  /\ thread_pc = <<>>
  /\ thread_name = <<>>
  /\ thread_price_type = <<>>
  /\ thread_df = <<>>
  /\ writers = <<>>
  /\ overlapped = FALSE

LibraryAtRest ==
  /\ bibliotheque = <<>>
  /\ loaded_libraries = <<>>
  /\ current_library_key = NoKey
  /\ LibraryIdle
  /\ served = <<>>
  /\ loaded_for = <<>>

\* ------------------------------------------------------------------ the data

\* Catalog rows as load_library leaves them: designation longer than 3
\* characters, no two rows with the same designation.
\* "Semelle beton arme" (e acute twice), "semelle beton", "beton de ciment pour semelle",
\* "tube fibrociment 20 x 40"
CatalogRows ==
  << [Designation |-> <<"S", "e", "m", "e", "l", "l", "e", " ", "b", "e_acute", "t", "o", "n", " ", "a", "r", "m", "e_acute">>,
      Unite |-> "m3", Prix |-> "95000"],
     [Designation |-> <<"s", "e", "m", "e", "l", "l", "e", " ", "b", "e", "t", "o", "n">>,
      Unite |-> "m3", Prix |-> "80000"],
     [Designation |-> <<"b", "e", "t", "o", "n", " ", "d", "e", " ", "c", "i", "m", "e", "n", "t", " ", "p", "o", "u", "r", " ", "s", "e", "m", "e", "l", "l", "e">>,
      Unite |-> "m3", Prix |-> "N/A"],
     [Designation |-> <<"t", "u", "b", "e", " ", "f", "i", "b", "r", "o", "c", "i", "m", "e", "n", "t", " ", "2", "0", " ", "x", " ", "4", "0">>,
      Unite |-> "ml", Prix |-> "4500"] >>

\* The q parameters of the requests:
\* "semelle beton", "semell beton", "semel tube", "mortier", "beto", "de la",
\* " a ", "BETON ciment (E acute)", "acier", ""
Queries ==
  { <<"s", "e", "m", "e", "l", "l", "e", " ", "b", "e", "t", "o", "n">>,
    <<"s", "e", "m", "e", "l", "l", " ", "b", "e", "t", "o", "n">>,
    <<"s", "e", "m", "e", "l", " ", "t", "u", "b", "e">>,
    <<"m", "o", "r", "t", "i", "e", "r">>,
    <<"b", "e", "t", "o">>,
    <<"d", "e", " ", "l", "a">>,
    <<" ", "a", " ">>,
    <<"B", "E_acute", "T", "O", "N", " ", "c", "i", "m", "e", "n", "t">>,
    <<"a", "c", "i", "e", "r">>,
    <<>> }

\* corrections.json: {"semelle": ["semell", "semelles"]}
CorrectionsFile ==
  [kind |-> "dict",
   items |-> << << <<"s", "e", "m", "e", "l", "l", "e">>,
                   << <<"s", "e", "m", "e", "l", "l">>,
                      <<"s", "e", "m", "e", "l", "l", "e", "s">> >> >> >>]

\* technical_dictionary.json:
\* {"beton": ["beton", "ciment", "mortier"], "semelle": ["semelle", "fondation"]}
DictionaryFile ==
  [m \in { <<"b", "e", "t", "o", "n">>, <<"s", "e", "m", "e", "l", "l", "e">> } |->
     IF m = <<"b", "e", "t", "o", "n">>
     THEN << <<"b", "e", "t", "o", "n">>, <<"c", "i", "m", "e", "n", "t">>,
             <<"m", "o", "r", "t", "i", "e", "r">> >>
     ELSE << <<"s", "e", "m", "e", "l", "l", "e">>,
             <<"f", "o", "n", "d", "a", "t", "i", "o", "n">> >>]

\* The longest catalog, the largest limit and the most negative limit tried.
MaxRows == 2

MaxLimit == 2

NegLimit == 1

Limits == (0 - NegLimit)..MaxLimit

\* The catalogs tried: every sequence of at most MaxRows distinct rows of
\* CatalogRows, before search has added its preprocessing columns.
CatalogOrders ==
  UNION {{f \in [1..n -> DOMAIN CatalogRows] : \A i, j \in 1..n : i # j => f[i] # f[j]} :
         n \in 0..MaxRows}

Catalogs ==
  {[i \in DOMAIN f |->
      [Designation |-> CatalogRows[f[i]].Designation,
       Unite |-> CatalogRows[f[i]].Unite, Prix |-> CatalogRows[f[i]].Prix,
       norm_designation |-> <<>>, designation_tokens |-> {}]] : f \in CatalogOrders}

\* --------------------------------------------------------------- the actions

Init ==
  /\ df \in Catalogs
  /\ corrections_file \in {[kind |-> "missing"], CorrectionsFile}
  /\ correction_map = load_corrections(corrections_file)
  /\ CorrectorIdle
  /\ dictionary = DictionaryFile
  /\ reverse_index = build_reverse_index(DictionaryFile)
  /\ pc = "idle"
  /\ query = <<>>
  /\ limit = 0
  /\ corrected_query = <<>>
  /\ query_norm = <<>>
  /\ query_tokens = {}
  /\ results_d1 = <<>>
  /\ synonym_terms = {}
  /\ results_d3 = <<>>
  /\ response = <<>>
  /\ scored = 0
  /\ expander_calls = 0
  /\ TreeAtRest
  /\ loaded_csvs = None
  /\ ScopeAtRest
  /\ CodeAtRest
  /\ dictionary_file = [kind |-> "dict", entries |-> DictionaryFile]
  /\ ManagerIdle
  /\ LibraryAtRest
  /\ ThreadsAtRest
  /\ TextAtRest

\* The /search route (app.py 113-125) calling BTCSearchEngine.search, up to
\* its early returns (search_engine.py 57-68).
SearchStart(q, lim) ==
  /\ pc = "idle"
  /\ query' = Strip(q)
  /\ limit' = lim
  /\ IF TooShort(query')
     THEN /\ pc' = "done"
          /\ response' = <<>>
          /\ UNCHANGED <<corrected_query, query_norm, query_tokens>>
     ELSE /\ corrected_query' = correct_query(correction_map, query')
          /\ query_norm' = normalize_text(corrected_query')
          /\ query_tokens' = Range(tokenize_btp(query_norm', FALSE))
          /\ IF NoTokens(query_tokens')
             THEN pc' = "done" /\ response' = <<>>
             ELSE pc' = "d1" /\ UNCHANGED response
  /\ UNCHANGED <<df, correction_map, dictionary, reverse_index, results_d1,
                 synonym_terms, results_d3, scored, expander_calls>>
  /\ UNCHANGED not_engine_vars

\* Preprocessing of the designations and the D1 pass (lines 70-91).
BuildD1 ==
  /\ pc = "d1"
  /\ df' = Preprocessed(df)
  /\ results_d1' = BuildD1From(df', query_tokens, 1)
  /\ scored' = scored + Len(df)
  /\ pc' = TierAfterD1(results_d1')
  /\ UNCHANGED <<correction_map, dictionary, reverse_index, query, limit,
                 corrected_query, query_norm, query_tokens, synonym_terms,
                 results_d3, response, expander_calls>>
  /\ UNCHANGED not_engine_vars

\* The D2 filter and the return of the D2 or the D1 list (lines 94-108).  The
\* D2 bonus is written into the result objects, which results_d1 shares.
FilterD2 ==
  /\ pc = "d2"
  /\ LET num_query_tokens == Cardinality(query_tokens)
         results_d2 == IF num_query_tokens > 1
                       THEN FilterD2From(results_d1, num_query_tokens, 1)
                       ELSE <<>>
     IN IF results_d2 # <<>>
        THEN /\ response' = Slice(SortByScoreDesc(results_d2), limit)
             /\ results_d1' = MarkD2(results_d1, num_query_tokens)
        ELSE /\ response' = Slice(SortByScoreDesc(results_d1), limit)
             /\ results_d1' = SortByScoreDesc(results_d1)
  /\ pc' = "done"
  /\ UNCHANGED <<df, correction_map, dictionary, reverse_index, query, limit,
                 corrected_query, query_norm, query_tokens, synonym_terms,
                 results_d3, scored, expander_calls>>
  /\ UNCHANGED not_engine_vars

\* The synonym tier (lines 110-135).
SynonymD3 ==
  /\ pc = "d3"
  /\ \E expanded_terms \in
        expand_query(dictionary, reverse_index, corrected_query, DefaultMaxExpansions) :
       /\ synonym_terms' = expanded_terms \ query_tokens
       /\ IF synonym_terms' = {}
          THEN /\ response' = <<>>
               /\ UNCHANGED <<results_d3, scored>>
          ELSE /\ results_d3' = SortByScoreDesc(BuildD3From(df, synonym_terms', 1))
               /\ response' = Slice(results_d3', limit)
               /\ scored' = scored + Len(df)
  /\ expander_calls' = expander_calls + 1
  /\ pc' = "done"
  /\ UNCHANGED <<df, correction_map, dictionary, reverse_index, query, limit,
                 corrected_query, query_norm, query_tokens, results_d1>>
  /\ UNCHANGED not_engine_vars

\* The route sends the response; the locals of the call are gone.
SearchReturn ==
  /\ pc = "done"
  /\ pc' = "idle"
  /\ query' = <<>>
  /\ limit' = 0
  /\ corrected_query' = <<>>
  /\ query_norm' = <<>>
  /\ query_tokens' = {}
  /\ results_d1' = <<>>
  /\ synonym_terms' = {}
  /\ results_d3' = <<>>
  /\ response' = <<>>
  /\ scored' = 0
  /\ expander_calls' = 0
  /\ UNCHANGED <<df, correction_map, dictionary, reverse_index>>
  /\ UNCHANGED not_engine_vars

Next ==
  \/ \E q \in Queries, lim \in Limits : SearchStart(q, lim)
  \/ BuildD1
  \/ FilterD2
  \/ SynonymD3
  \/ SearchReturn

Spec == Init /\ [][Next]_vars

\* ------------------------------------------------ properties: search engine

\* Two tokens are related by prefix / by containment, in either direction.
PrefixRelated(a, b) == StartsWith(a, b) \/ StartsWith(b, a)

ContainRelated(a, b) == IsSubstring(a, b) \/ IsSubstring(b, a)

\* The row of the frame that carries a designation (designations are unique).
RowOf(designation) == CHOOSE i \in DOMAIN df : df[i].Designation = designation

\* Some row of the frame has a token related by prefix to a query token:
\* the D1 list of this request is not empty.
D1NonEmpty ==
  \E i \in DOMAIN df : \E q_token \in query_tokens :
     \E d_token \in df[i].designation_tokens : PrefixRelated(q_token, d_token)

\* C1: if some entry matches a query token (D1 non-empty), the returned list
\* holds only D1- or D2-labelled results and expand_query is never called; a
\* D3-labelled result is returned only in a run whose D1 list was empty.
C1_TierExclusivity ==
  /\ (expander_calls > 0) => (~D1NonEmpty /\ results_d1 = <<>>)
  /\ (pc = "done" /\ D1NonEmpty) =>
        /\ expander_calls = 0
        /\ \A k \in DOMAIN response : response[k].match_type \in {MatchD1, MatchD2}
  /\ (pc = "done" /\ \E k \in DOMAIN response : response[k].match_type = MatchD3) =>
        (~D1NonEmpty /\ results_d1 = <<>> /\ expander_calls = 1)

\* A request with a non-empty D1 list has returned a non-empty list.
C1_Witness == pc = "done" /\ D1NonEmpty /\ response # <<>>

\* Every query token is related by prefix to some token of row i.
AllTokensMatch(i) ==
  \A q_token \in query_tokens :
     \E d_token \in df[i].designation_tokens : PrefixRelated(q_token, d_token)

\* C2: with more than one query token and at least one entry matching all of
\* them, the D2 step returns only entries that match every query token, each
\* carrying its D1 score plus 50 and the complete-match label.
C2_CompleteTier ==
  [][ (/\ pc = "d2" /\ pc' = "done"
       /\ Cardinality(query_tokens) > 1
       /\ \E i \in DOMAIN df : AllTokensMatch(i))
      => \A k \in DOMAIN response' :
            /\ AllTokensMatch(RowOf(response'[k].designation))
            /\ response'[k].num_matches = Cardinality(query_tokens)
            /\ response'[k].match_type = MatchD2
            /\ \E j \in DOMAIN results_d1 :
                  /\ results_d1[j].designation = response'[k].designation
                  /\ results_d1[j].match_type = MatchD1
                  /\ response'[k].score = results_d1[j].score + 50 ]_vars

\* A D2 list was returned while the D1 list also held a partial match.
C2_Witness ==
  /\ pc = "done"
  /\ \E k \in DOMAIN response : response[k].match_type = MatchD2
  /\ \E j \in DOMAIN results_d1 : results_d1[j].match_type = MatchD1

\* The D1 list just built (pc = "d2": it is not empty and not yet relabelled)
\* scores every row as `bonus` says and keeps exactly the matching rows.
D1ScoredWith(Bonus(_)) ==
  pc = "d2" =>
    /\ \A j \in DOMAIN results_d1 : results_d1[j].score > 0
    /\ \A i \in DOMAIN df :
         LET matches == {q_token \in query_tokens :
                           \E d_token \in df[i].designation_tokens :
                              PrefixRelated(q_token, d_token)}
             mine == {j \in DOMAIN results_d1 :
                        results_d1[j].designation = df[i].Designation}
         IN IF matches = {} THEN mine = {}
            ELSE /\ Cardinality(mine) = 1
                 /\ \A j \in mine :
                      results_d1[j].score = 10 * Cardinality(matches) + Bonus(i)

SubstringBonus(i) == IF IsSubstring(query_norm, df[i].norm_designation) THEN 5 ELSE 0

SharedTokenBonus(i) ==
  IF \E q_token \in query_tokens : q_token \in df[i].designation_tokens THEN 5 ELSE 0

\* C3 as stated: the D1 score is 10 per matching query token, plus 5 exactly
\* when the normalized query is a substring of the normalized designation.
C3_Original == D1ScoredWith(SubstringBonus)

\* C3 as the code has it: the D1 score is 10 per matching query token, plus 5
\* exactly when some query token equals a token of the designation; rows
\* without a match are not kept, so no kept score is 0.
C3_D1Scoring == D1ScoredWith(SharedTokenBonus)

\* A D1 list holding a result with the bonus and one without it.
C3_Witness ==
  /\ pc = "d2"
  /\ \E j \in DOMAIN results_d1 : results_d1[j].score % 10 = 5
  /\ \E j \in DOMAIN results_d1 : results_d1[j].score % 10 = 0

\* C4: every returned list holds only positive scores, is sorted by score
\* descending, and keeps results of equal score in the order of their rows.
C4_SortedStable ==
  pc = "done" =>
    /\ \A k \in DOMAIN response : response[k].score > 0
    /\ \A k, l \in DOMAIN response :
         k < l => \/ response[k].score > response[l].score
                  \/ /\ response[k].score = response[l].score
                     /\ RowOf(response[k].designation) < RowOf(response[l].designation)

\* A returned list with two results of equal score.
C4_Witness ==
  /\ pc = "done"
  /\ \E k, l \in DOMAIN response : k < l /\ response[k].score = response[l].score

\* C5 as stated: the returned list is never longer than the limit (said of
\* the non-empty lists; an empty list is as short as a list can be).
C5_Original == (pc = "done" /\ response # <<>>) => Len(response) <= limit

\* The D3 list of this request matched, for every row, exactly the synonym
\* terms that are related to one of the row's tokens.
D3MatchedBy(Related(_, _)) ==
  (pc = "done" /\ synonym_terms # {}) =>
    \A i \in DOMAIN df :
      LET mine == {j \in DOMAIN results_d3 :
                     results_d3[j].designation = df[i].Designation}
          matched == UNION {results_d3[j].matched_terms : j \in mine}
      IN matched = {s \in synonym_terms :
                      \E d_token \in df[i].designation_tokens : Related(s, d_token)}

\* C6 as stated: the synonym tier matches by containment.
C6_Original == D3MatchedBy(ContainRelated)

\* C6 as the code has it: the synonym tier matches by prefix.
C6_PrefixMatching == D3MatchedBy(PrefixRelated)

\* The synonym tier returned a match while a synonym term lies inside a token
\* of some row without being a prefix of it.
C6_Witness ==
  /\ pc = "done"
  /\ results_d3 # <<>>
  /\ \E i \in DOMAIN df : \E s \in synonym_terms :
       \E d_token \in df[i].designation_tokens :
          ContainRelated(s, d_token) /\ ~PrefixRelated(s, d_token)

\* C7: a query shorter than 2 characters once trimmed, or without any token
\* after correction, normalization and tokenization, returns the empty list
\* at once: no row is scored and no tier list is built.
C7_EarlyReturn ==
  (/\ pc # "idle"
   /\ \/ Len(Strip(query)) < 2
      \/ Range(tokenize_btp(normalize_text(correct_query(correction_map, query)),
                            FALSE)) = {})
  => /\ pc = "done"
     /\ response = <<>>
     /\ scored = 0
     /\ results_d1 = <<>>
     /\ results_d3 = <<>>
     /\ expander_calls = 0

\* A query of two or more characters that has no token returned at once.
C7_Witness ==
  /\ pc = "done"
  /\ Len(Strip(query)) >= 2
  /\ query_tokens = {}
  /\ scored = 0
  /\ df # <<>>

\* ------------------------------------------------- recup/backend: the data

\* Rows of a catalog file as load_csv_file cleans them (lines 316-330): a
\* title, a subtitle and two content rows of building works, the same for
\* roads, a subtitle whose fourth segment is empty with a three-segment
\* content row, and two rows whose code has two segments, the second one with
\* a designation made of stop words only ("sur le").
CatalogFileRows ==
  << [Code |-> <<"3", ".", "1", ".", "0">>,
      Designation |-> <<"B", "A", "T", "I", "M", "E", "N", "T", " ", "N", "E", "U", "F">>,
      Unite |-> "", Minimum |-> "N/A", Moyen |-> "N/A", Maximum |-> "N/A"],
     [Code |-> <<"3", ".", "1", ".", "0", ".", "0">>,
      Designation |-> <<"I", "N", "F", "R", "A", "S", "T", "R", "U", "C", "T", "U", "R", "E">>,
      Unite |-> "", Minimum |-> "N/A", Moyen |-> "N/A", Maximum |-> "N/A"],
     [Code |-> <<"3", ".", "1", ".", "0", ".", "0", ".", "1">>,
      Designation |-> <<"S", "e", "m", "e", "l", "l", "e", " ", "e", "n", " ", "b", "e_acute", "t", "o", "n">>,
      Unite |-> "m3", Minimum |-> "80 000", Moyen |-> "95 000", Maximum |-> "110 000"],
     [Code |-> <<"3", ".", "1", ".", "0", ".", "1", ".", "1">>,
      Designation |-> <<"m", "u", "r", " ", "e", "n", " ", "p", "a", "r", "p", "a", "i", "n", "g">>,
      Unite |-> "m2", Minimum |-> "7 000", Moyen |-> "8 500", Maximum |-> "9 000"],
     [Code |-> <<"3", ".", "2", ".", "0">>,
      Designation |-> <<"V", "O", "I", "R", "I", "E">>,
      Unite |-> "", Minimum |-> "N/A", Moyen |-> "N/A", Maximum |-> "N/A"],
     [Code |-> <<"3", ".", "2", ".", "0", ".", "0">>,
      Designation |-> <<"T", "E", "R", "R", "A", "S", "S", "E", "M", "E", "N", "T", " ", "G", "E", "N", "E", "R", "A", "L">>,
      Unite |-> "", Minimum |-> "N/A", Moyen |-> "N/A", Maximum |-> "N/A"],
     [Code |-> <<"3", ".", "2", ".", "0", ".", "0", ".", "1">>,
      Designation |-> <<"f", "o", "u", "i", "l", "l", "e", " ", "e", "n", " ", "r", "i", "g", "o", "l", "e">>,
      Unite |-> "m3", Minimum |-> "3 000", Moyen |-> "4 000", Maximum |-> "5 000"],
     [Code |-> <<"3", ".", "1", ".", "1", ".">>,
      Designation |-> <<"D", "I", "V", "E", "R", "S">>,
      Unite |-> "", Minimum |-> "N/A", Moyen |-> "N/A", Maximum |-> "N/A"],
     [Code |-> <<"3", ".", "1", ".", "1">>,
      Designation |-> <<"e", "n", "d", "u", "i", "t", " ", "c", "i", "m", "e", "n", "t">>,
      Unite |-> "m2", Minimum |-> "2 000", Moyen |-> "2 500", Maximum |-> "3 000"],
     [Code |-> <<"3", ".", "1">>,
      Designation |-> <<"L", "O", "T", " ", "G", "R", "O", "S", " ", "O", "E", "U", "V", "R", "E">>,
      Unite |-> "", Minimum |-> "N/A", Moyen |-> "N/A", Maximum |-> "N/A"],
     [Code |-> <<"3", ".", "2">>,
      Designation |-> <<"s", "u", "r", " ", "l", "e">>,
      Unite |-> "", Minimum |-> "N/A", Moyen |-> "N/A", Maximum |-> "N/A"] >>

MaxTreeRows == 3

\* The frames tried by the tree builder: at most MaxTreeRows distinct rows of
\* CatalogFileRows in any order.
TreeCatalogs ==
  UNION {{[i \in 1..n |-> CatalogFileRows[f[i]]] :
            f \in {g \in [1..n -> DOMAIN CatalogFileRows] :
                     \A i, j \in 1..n : i # j => g[i] # g[j]}} :
         n \in 0..MaxTreeRows}

\* The file the backend searches: the building and road rows, in file order.
ScopeFile == SubSeq(CatalogFileRows, 1, 7)

MaxMissing == 1

\* the rows of file at the positions of keep, in order
RECURSIVE KeepRowsFrom(_, _, _)
KeepRowsFrom(file, keep, i) ==
  IF i > Len(file) THEN <<>>
  ELSE (IF i \in keep THEN <<file[i]>> ELSE <<>>) \o KeepRowsFrom(file, keep, i + 1)

\* The catalogs searched: the file with at most MaxMissing rows left out.
ScopeCatalogs ==
  {KeepRowsFrom(ScopeFile, keep, 1) :
     keep \in {k \in SUBSET DOMAIN ScopeFile :
                 Cardinality(k) >= Len(ScopeFile) - MaxMissing}}

ScopeQueries ==
  { <<"s", "e", "m", "e", "l", "l", "e">>,
    <<"f", "o", "u", "i", "l">>,
    <<"e", "n", "d", "u", "i", "t">>,
    <<"x">> }

\* The titles parameter: a JSON list of labels, or text that is not JSON.
TitlesParameters ==
  { [kind |-> "list", items |-> <<>>],
    [kind |-> "list", items |-> <<<<"B", "a", "t", "i", "m", "e", "n", "t", " ", "n", "e", "u", "f">>>>],
    [kind |-> "list", items |-> <<<<"P", "i", "s", "c", "i", "n", "e">>>>],
    [kind |-> "invalid_json"] }

SubtitleParameters ==
  { <<>>,
    <<"T", "e", "r", "r", "a", "s", "s", "e", "m", "e", "n", "t">>,
    <<"T", "o", "i", "t", "u", "r", "e", " ">> }

PriceTypes == { <<"M", "o", "y", "e", "n">>, <<"m", "i", "n", "i", "m", "u", "m">> }

MaxScopeLimit == 2

ScopeLimits == 1..MaxScopeLimit

\* The last call of the sentence encoder that is made to raise.
MaxFault == 3

ProviderFaults == 0..MaxFault

\* ------------------------------------- recup/backend: loading a catalog file

InitTree ==
  /\ df_hierarchical \in TreeCatalogs
  /\ structure = EmptyDict
  /\ idx = 1
  /\ tree_pc = "building"
  /\ loaded_csvs = None
  /\ EngineAtRest
  /\ ScopeAtRest
  /\ CodeAtRest
  /\ ManagerAtRest
  /\ CorrectorAtRest
  /\ LibraryAtRest
  /\ ThreadsAtRest
  /\ TextAtRest

\* One iteration of the loop of build_hierarchical_structure (lines 146-203).
BuildStep ==
  /\ tree_pc = "building"
  /\ idx <= Len(df_hierarchical)
  /\ structure' = BuildRow(structure, idx, df_hierarchical[idx])
  /\ idx' = idx + 1
  /\ UNCHANGED <<df_hierarchical, tree_pc, loaded_csvs>>
  /\ UNCHANGED not_tree_vars

\* The loop is over: the tree is returned and load_csv_file returns the
\* catalog (lines 205 and 335-347).
BuildReturn ==
  /\ tree_pc = "building"
  /\ idx > Len(df_hierarchical)
  /\ loaded_csvs' = LoadedCsv(df_hierarchical, structure)
  /\ tree_pc' = "loaded"
  /\ UNCHANGED <<df_hierarchical, structure, idx>>
  /\ UNCHANGED not_tree_vars

NextTree ==
  \/ BuildStep
  \/ BuildReturn

SpecTree == InitTree /\ [][NextTree]_vars

\* ------------------------------------------- recup/backend: the /search route

InitScope ==
  /\ \E file \in ScopeCatalogs :
        loaded_csvs = LoadedCsv(file, build_hierarchical_structure(file))
  /\ model_kind \in ModelKinds
  /\ scope_pc = "idle"
  /\ b_query = <<>>
  /\ price_type = <<>>
  /\ selected_titles = <<>>
  /\ subtitle = <<>>
  /\ b_limit = 0
  /\ matching_titles = <<>>
  /\ matching_subtitles = <<>>
  /\ search_scope = <<>>
  /\ b_response = <<>>
  /\ provider_fault = 0
  /\ results_with_scores = <<>>
  /\ final_results = <<>>
  /\ EngineAtRest
  /\ TreeAtRest
  /\ CodeAtRest
  /\ ManagerAtRest
  /\ CorrectorAtRest
  /\ LibraryAtRest
  /\ ThreadsAtRest
  /\ TextAtRest

\* json.loads(titles_json) if titles_json != '[]' else [], [] on a parse error
\* (lines 509-512)
ParsedTitles(titles_json) ==
  IF titles_json.kind = "list" THEN titles_json.items ELSE <<>>

\* The route reads its parameters and returns [] for a query of fewer than two
\* characters (lines 496-512).
ScopeSearchStart(q, pt, titles_json, sub, lim) ==
  /\ scope_pc = "idle"
  /\ b_query' = Strip(q)
  /\ price_type' = Strip(pt)
  /\ subtitle' = Strip(sub)
  /\ b_limit' = lim
  /\ IF b_query' = <<>> \/ Len(b_query') < 2
     THEN /\ scope_pc' = "done"
          /\ selected_titles' = <<>>
     ELSE /\ scope_pc' = "resolve"
          /\ selected_titles' = ParsedTitles(titles_json)
  /\ b_response' = <<>>
  /\ UNCHANGED <<loaded_csvs, model_kind, matching_titles, matching_subtitles,
                 search_scope, provider_fault, results_with_scores, final_results>>
  /\ UNCHANGED not_scope_vars

\* The resolution of the search scope from the filters (lines 532-578).
ResolveScope ==
  /\ scope_pc = "resolve"
  /\ matching_titles' =
       IF selected_titles # <<>>
       THEN find_matching_titles_in_csv(selected_titles, loaded_csvs.hierarchical_data)
       ELSE <<>>
  /\ matching_subtitles' =
       IF selected_titles # <<>> /\ subtitle # <<>>
       THEN find_matching_subtitles_in_csv(subtitle, selected_titles,
                                           loaded_csvs.hierarchical_data)
       ELSE <<>>
  /\ search_scope' = ResolvedScope(selected_titles, subtitle, matching_titles',
                                   matching_subtitles', loaded_csvs.hierarchical_data)
  /\ scope_pc' = IF FallsBackToGlobal(search_scope') THEN "global" ELSE "scoped"
  /\ UNCHANGED <<loaded_csvs, model_kind, b_query, price_type, selected_titles,
                 subtitle, b_limit, b_response, provider_fault, results_with_scores,
                 final_results>>
  /\ UNCHANGED not_scope_vars

\* return search_global(query, price_type, df_search, limit)  (line 578); the
\* sentence encoder answers every call the request makes or raises at one of
\* them.
GlobalSearchWith(results, processed_query) ==
  /\ provider_fault' \in
       {f \in ProviderFaults :
          f <= ProviderCallsAfter(results, loaded_csvs.df_search, processed_query)}
  /\ results_with_scores' = results
  /\ final_results' = FinalResults(results, loaded_csvs.df_search, model_kind,
                                   processed_query, price_type, provider_fault')
  /\ b_response' = GlobalSuggestions(Slice(final_results', b_limit))

GlobalSearch ==
  /\ scope_pc = "global"
  /\ GlobalSearchWith(ResultsWithScores(b_query, price_type, loaded_csvs.df_search),
                      ProcessedQuery(ListOf(backend_expand_query(b_query))))
  /\ scope_pc' = "done"
  /\ UNCHANGED <<loaded_csvs, model_kind, b_query, price_type, selected_titles,
                 subtitle, b_limit, matching_titles, matching_subtitles, search_scope>>
  /\ UNCHANGED not_scope_vars

\* The search within the resolved scope (lines 580-624).
ScopedSearch ==
  /\ scope_pc = "scoped"
  /\ b_response' = search_scoped(b_query, price_type, search_scope, b_limit)
  /\ scope_pc' = "done"
  /\ UNCHANGED <<loaded_csvs, model_kind, b_query, price_type, selected_titles,
                 subtitle, b_limit, matching_titles, matching_subtitles, search_scope,
                 provider_fault, results_with_scores, final_results>>
  /\ UNCHANGED not_scope_vars

\* The route has answered; the locals of the call are gone.
ScopeSearchReturn ==
  /\ scope_pc = "done"
  /\ scope_pc' = "idle"
  /\ b_query' = <<>>
  /\ price_type' = <<>>
  /\ selected_titles' = <<>>
  /\ subtitle' = <<>>
  /\ b_limit' = 0
  /\ matching_titles' = <<>>
  /\ matching_subtitles' = <<>>
  /\ search_scope' = <<>>
  /\ b_response' = <<>>
  /\ provider_fault' = 0
  /\ results_with_scores' = <<>>
  /\ final_results' = <<>>
  /\ UNCHANGED <<loaded_csvs, model_kind>>
  /\ UNCHANGED not_scope_vars

NextScope ==
  \/ \E q \in ScopeQueries, pt \in PriceTypes, titles_json \in TitlesParameters,
        sub \in SubtitleParameters, lim \in ScopeLimits :
       ScopeSearchStart(q, pt, titles_json, sub, lim)
  \/ ResolveScope
  \/ GlobalSearch
  \/ ScopedSearch
  \/ ScopeSearchReturn

SpecScope == InitScope /\ [][NextScope]_vars

\* ----------------------------------------------- properties: recup/backend

\* The lists of the tree that hold content: <<title key>> for a title node,
\* <<title key, subtitle key>> for a subtitle node.
Places(tree) ==
  {<<tk>> : tk \in DOMAIN tree.node}
  \cup UNION {{<<tk, sk>> : sk \in DOMAIN tree.node[tk].subtitles.node} :
                tk \in DOMAIN tree.node}

ContentAt(tree, place) ==
  IF Len(place) = 1 THEN tree.node[place[1]].content
  ELSE tree.node[place[1]].subtitles.node[place[2]].content

\* Where the content of row number i is held.
Placement(tree, i) ==
  {place \in Places(tree) :
     \E k \in DOMAIN ContentAt(tree, place) : ContentAt(tree, place)[k].index = i}

IsPrefixOf(a, b) == Len(a) <= Len(b) /\ SubSeq(b, 1, Len(a)) = a

\* The segments of the code of the row the loop is at.
SegmentsAt(i) == SplitOn(df_hierarchical[i].Code, ".")

\* The row is entered in the tree as content: its code has three segments at
\* least and it is neither a title row nor a subtitle row.
IsContentRow(parts) ==
  /\ Len(parts) >= 3
  /\ ~(Len(parts) = 3 /\ parts[3] \in {<<"0">>, <<>>})
  /\ ~(Len(parts) = 4 /\ parts[4] \in {<<"0">>, <<>>})

FirstSegments(parts, n) == Join(SubSeq(parts, 1, n), <<".">>)

\* The subsubtitle segment is not empty and the subtitle node keyed by the
\* first four segments is in the tree.
SubtitleNodePresent(tree, parts) ==
  /\ Len(parts) >= 4
  /\ parts[4] # <<>>
  /\ FirstSegments(parts, 3) \in DOMAIN tree.node
  /\ FirstSegments(parts, 4) \in DOMAIN tree.node[FirstSegments(parts, 3)].subtitles.node

ExpectedPlace(tree, parts) ==
  IF SubtitleNodePresent(tree, parts)
  THEN <<FirstSegments(parts, 3), FirstSegments(parts, 4)>>
  ELSE <<FirstSegments(parts, 3)>>

\* C10: tree construction attachment rule.  Each step of the loop of
\* build_hierarchical_structure, taking the rows in input order, appends a
\* content row to the content list of the subtitle node keyed by its first
\* four segments exactly when its subsubtitle segment is not empty and that
\* node is in the tree at that moment, and to the content list of its title
\* node in every other case; every content list only grows at its end, so no
\* later row (a subtitle row arriving late in particular) moves a content
\* row placed earlier.
C10_AttachmentRule ==
  [][(tree_pc = "building" /\ idx' = idx + 1) =>
       /\ \A place \in Places(structure) :
            /\ place \in Places(structure')
            /\ IsPrefixOf(ContentAt(structure, place), ContentAt(structure', place))
       /\ \A j \in 1..(idx - 1) : Placement(structure', j) = Placement(structure, j)
       /\ IsContentRow(SegmentsAt(idx)) =>
            /\ Placement(structure, idx) = {}
            /\ Placement(structure', idx) = {ExpectedPlace(structure, SegmentsAt(idx))}
            /\ LET held == ContentAt(structure', ExpectedPlace(structure, SegmentsAt(idx)))
               IN /\ held[Len(held)].index = idx
                  /\ held[Len(held)].code = df_hierarchical[idx].Code
                  /\ held[Len(held)].designation = df_hierarchical[idx].Designation
     ]_vars

\* C10 happens: a content row with a subsubtitle segment sits in the content
\* list of its title node although the subtitle node keyed by its first four
\* segments is in the tree, the subtitle row having come after it.
C10_Witness ==
  /\ tree_pc = "building"
  /\ \E tk \in DOMAIN structure.node :
       \E k \in DOMAIN structure.node[tk].content :
          LET item == structure.node[tk].content[k]
          IN /\ item.hierarchy.subsubtitle # <<>>
             /\ (tk \o <<".">> \o item.hierarchy.subsubtitle)
                   \in DOMAIN structure.node[tk].subtitles.node
             /\ structure.node[tk].subtitles.node[
                   tk \o <<".">> \o item.hierarchy.subsubtitle].subtitle_index > item.index

\* The request carries a title filter or a subtitle filter.
Filtered == selected_titles # <<>> \/ subtitle # <<>>

\* What the full-catalog search answers to the query of the request, which
\* is what the request gets when it carries no filter, the sentence encoder
\* raising at the same call.
FullCatalogAnswer(fault) ==
  search_global(b_query, price_type, loaded_csvs.df_search, b_limit, model_kind, fault)

\* C8: hierarchical scope fallback.  A request whose scope resolution yields
\* an empty scope, whether it carries filters or none, is answered by the
\* full-catalog search: a filtered request with an empty scope gets the
\* result of the same query without filters.
C8_ScopeFallback ==
  [][(scope_pc \in {"global", "scoped"} /\ scope_pc' = "done" /\ search_scope = <<>>) =>
       b_response' = FullCatalogAnswer(provider_fault')]_vars

\* C8 happens: a request with filters resolved to an empty scope and got a
\* non-empty answer.
C8_Witness ==
  /\ scope_pc = "done"
  /\ Filtered
  /\ search_scope = <<>>
  /\ b_response # <<>>

\* The content lists of the subtitle nodes of the titles matched for the
\* request.
MatchedTitlesSubtitleContent ==
  UNION {UNION {Range(loaded_csvs.hierarchical_data.node[matching_titles[m].title_key]
                        .subtitles.node[sk].content) :
                  sk \in DOMAIN loaded_csvs.hierarchical_data
                           .node[matching_titles[m].title_key].subtitles.node} :
           m \in DOMAIN matching_titles}

\* C9 as stated: with titles and a subtitle label supplied, every entry of the
\* resolved scope is content of a subtitle node of a title matched for the
\* request.
C9_Original ==
  (scope_pc \in {"global", "scoped", "done"} /\ selected_titles # <<>> /\ subtitle # <<>>)
    => \A k \in DOMAIN search_scope : search_scope[k] \in MatchedTitlesSubtitleContent

\* ------------------------------------------ recup/backend: the kind of a code

\* The characters a code is drawn from and the length of the longest code.
CodeAlphabet == {"0", "1", "."}

MaxCodeLen == 6

\* Every str over the alphabet, and a value that is not a str.
Codes == UNION {[1..n -> CodeAlphabet] : n \in 0..MaxCodeLen} \cup {NotAString}

InitCodes ==
  /\ code \in Codes
  /\ hierarchy = None
  /\ entry_type = <<>>
  /\ code_pc = "given"
  /\ EngineAtRest
  /\ TreeAtRest
  /\ loaded_csvs = None
  /\ ScopeAtRest
  /\ ManagerAtRest
  /\ CorrectorAtRest
  /\ LibraryAtRest
  /\ ThreadsAtRest
  /\ TextAtRest

\* parse_code_hierarchy(code) returns (lines 101-119).
ParseCode ==
  /\ code_pc = "given"
  /\ hierarchy' = parse_code_hierarchy(code)
  /\ code_pc' = "parsed"
  /\ UNCHANGED <<code, entry_type>>
  /\ UNCHANGED not_code_vars

\* identify_entry_type(designation, code) returns (lines 121-140); the
\* designation is not read.
IdentifyEntryType ==
  /\ code_pc = "parsed"
  /\ entry_type' = identify_entry_type(<<>>, code)
  /\ code_pc' = "identified"
  /\ UNCHANGED <<code, hierarchy>>
  /\ UNCHANGED not_code_vars

NextCodes ==
  \/ ParseCode
  \/ IdentifyEntryType

SpecCodes == InitCodes /\ [][NextCodes]_vars

\* ------------------------------------ properties: the kind of a code

\* The number of dot-delimited segments of a str: one more than its dots.
SegmentCount(text) == Cardinality({i \in DOMAIN text : text[i] = "."}) + 1

\* The segment after the last dot.
LastSegment(text) ==
  LET dots == {i \in DOMAIN text : text[i] = "."}
      last == IF dots = {} THEN 0 ELSE CHOOSE i \in dots : \A j \in dots : j <= i
  IN SubSeq(text, last + 1, Len(text))

EmptyOrZero(segment) == segment = <<>> \/ segment = <<"0">>

ShortCode(i) == SegmentCount(df_hierarchical[i].Code) < 3

\* The rows a tree refers to: as a title, as a subtitle or as content.
RowsInTree(tree) ==
  {tree.node[place[1]].title_index : place \in Places(tree)}
  \cup {tree.node[place[1]].subtitles.node[place[2]].subtitle_index :
          place \in {p \in Places(tree) : Len(p) = 2}}
  \cup UNION {{ContentAt(tree, place)[k].index : k \in DOMAIN ContentAt(tree, place)} :
                place \in Places(tree)}

\* Row i of the frame is one of the entries of the flat search frame.
InFlatEntries(catalog, i) ==
  \E k \in DOMAIN catalog.df_search :
    /\ catalog.df_search[k].index = i
    /\ catalog.df_search[k].Designation = catalog.df_hierarchical[i].Designation

\* The step of the tree builder on a row whose code has fewer than 3
\* segments adds no node and no reference to the row, and the loop goes on
\* to the next row.
SkippedByTheStep ==
  (tree_pc = "building" /\ idx <= Len(df_hierarchical) /\ ShortCode(idx)) =>
    /\ Places(structure') = Places(structure)
    /\ idx \notin RowsInTree(structure')
    /\ tree_pc' = "building"
    /\ idx' = idx + 1

\* C12, as stated: a cleaned row whose code has fewer than 3 segments creates
\* no node and no content reference in the tree, building the tree goes
\* through, and the row is among the flat entries of the loaded catalog.
C12_Original ==
  [][/\ SkippedByTheStep
     /\ tree_pc' = "loaded" =>
          \A i \in DOMAIN df_hierarchical :
            ShortCode(i) =>
              /\ i \notin RowsInTree(loaded_csvs'.hierarchical_data)
              /\ InFlatEntries(loaded_csvs', i)
    ]_vars

\* C12, amended: a cleaned row whose code has fewer than 3 segments creates
\* no node and no content reference in the tree, building the tree goes
\* through, and the row is among the flat entries of the loaded catalog
\* exactly when its search text (its designation without stop words and
\* words of one or two characters) is not empty, the rule of every row.
C12_UnparseableRows ==
  [][/\ SkippedByTheStep
     /\ tree_pc' = "loaded" =>
          \A i \in DOMAIN df_hierarchical :
            /\ ShortCode(i) => i \notin RowsInTree(loaded_csvs'.hierarchical_data)
            /\ InFlatEntries(loaded_csvs', i)
                 <=> preprocess_text(df_hierarchical[i].Designation, TRUE) # <<>>
    ]_vars

\* C12 happens: a catalog is loaded whose tree has a node, and a row with a
\* two-segment code is among its flat entries and nowhere in its tree.
C12_Witness ==
  /\ tree_pc = "loaded"
  /\ Places(loaded_csvs.hierarchical_data) # {}
  /\ \E i \in DOMAIN df_hierarchical :
       /\ ShortCode(i)
       /\ InFlatEntries(loaded_csvs, i)
       /\ i \notin RowsInTree(loaded_csvs.hierarchical_data)

\* ------------------------------------------- dictionary_manager: the manager

\* The files at dictionary_path: none, the dictionary of the engine,
\* {"Béton": ["béton", "ciment"]} and {"mur": ["cloison"]}.
DictionaryFiles ==
  { [kind |-> "missing"],
    [kind |-> "dict", entries |-> DictionaryFile],
    [kind |-> "dict", entries |-> (<<"B", "e_acute", "t", "o", "n">> :> << <<"b", "e_acute", "t", "o", "n">>, <<"c", "i", "m", "e", "n", "t">> >>)],
    [kind |-> "dict", entries |-> (<<"m", "u", "r">> :> << <<"c", "l", "o", "i", "s", "o", "n">> >>)] }

\* The arguments of add_synonym: "beton", "Béton", "Mur" and "ciment",
\* "Chape", "mur".
MainTerms == { <<"b", "e", "t", "o", "n">>, <<"B", "e_acute", "t", "o", "n">>, <<"M", "u", "r">> }

NewSynonyms == { <<"c", "i", "m", "e", "n", "t">>, <<"C", "h", "a", "p", "e">>, <<"m", "u", "r">> }

\* The arguments of expand_query: "ciment", "mur beton", "chape".
ManagerQueries == { <<"c", "i", "m", "e", "n", "t">>, <<"m", "u", "r", " ", "b", "e", "t", "o", "n">>, <<"c", "h", "a", "p", "e">> }

\* the most calls of add_synonym in a run
MaxAdds == 2

\* The manager as DictionaryManager() leaves it (lines 21-25).
InitDictionary ==
  /\ dictionary_file \in DictionaryFiles
  /\ dictionary = LoadedDictionary(dictionary_file)
  /\ reverse_index = build_reverse_index(dictionary)
  /\ manager_pc = "ready"
  /\ main_term = <<>>
  /\ new_synonym = <<>>
  /\ manager_query = <<>>
  /\ expanded = {}
  /\ rebuilt = FALSE
  /\ saved = FALSE
  /\ adds = 0
  /\ RequestAtRest
  /\ correction_map = <<>>
  /\ TreeAtRest
  /\ loaded_csvs = None
  /\ ScopeAtRest
  /\ CodeAtRest
  /\ CorrectorAtRest
  /\ LibraryAtRest
  /\ ThreadsAtRest
  /\ TextAtRest

\* load_dictionary (lines 27-36)
LoadDictionary ==
  /\ manager_pc = "ready"
  /\ dictionary' = LoadedDictionary(dictionary_file)
  /\ reverse_index' = build_reverse_index(dictionary')
  /\ rebuilt' = TRUE
  /\ saved' = FALSE
  /\ manager_pc' = "loaded"
  /\ UNCHANGED <<dictionary_file, main_term, new_synonym, manager_query, expanded, adds>>
  /\ UNCHANGED not_manager_vars

\* add_synonym (lines 78-93), with save_dictionary (lines 38-45) writing the
\* file.
AddSynonym(mt, ns) ==
  /\ manager_pc = "ready"
  /\ adds < MaxAdds
  /\ adds' = adds + 1
  /\ main_term' = mt
  /\ new_synonym' = ns
  /\ IF HasSynonym(WithMainTerm(dictionary, Lower(mt), mt)[Lower(mt)], ns)
     THEN /\ dictionary' = WithMainTerm(dictionary, Lower(mt), mt)
          /\ rebuilt' = FALSE
          /\ saved' = FALSE
          /\ UNCHANGED <<reverse_index, dictionary_file>>
     ELSE /\ dictionary' = [WithMainTerm(dictionary, Lower(mt), mt) EXCEPT ![Lower(mt)] = Append(@, ns)]
          /\ reverse_index' = build_reverse_index(dictionary')
          /\ rebuilt' = TRUE
          /\ saved' = TRUE
          /\ dictionary_file' = [kind |-> "dict", entries |-> dictionary']
  /\ manager_pc' = "added"
  /\ UNCHANGED <<manager_query, expanded>>
  /\ UNCHANGED not_manager_vars

\* expand_query (lines 58-76)
ExpandQuery(q) ==
  /\ manager_pc = "ready"
  /\ manager_query' = q
  /\ expanded' \in expand_query(dictionary, reverse_index, q, DefaultMaxExpansions)
  /\ rebuilt' = FALSE
  /\ saved' = FALSE
  /\ manager_pc' = "expanded"
  /\ UNCHANGED <<dictionary, reverse_index, dictionary_file, main_term, new_synonym, adds>>
  /\ UNCHANGED not_manager_vars

\* The call returns to its caller.
ManagerReturn ==
  /\ manager_pc \in {"loaded", "added", "expanded"}
  /\ manager_pc' = "ready"
  /\ main_term' = <<>>
  /\ new_synonym' = <<>>
  /\ manager_query' = <<>>
  /\ expanded' = {}
  /\ rebuilt' = FALSE
  /\ saved' = FALSE
  /\ UNCHANGED <<dictionary, reverse_index, dictionary_file, adds>>
  /\ UNCHANGED not_manager_vars

NextDictionary ==
  \/ LoadDictionary
  \/ \E mt \in MainTerms, ns \in NewSynonyms : AddSynonym(mt, ns)
  \/ \E q \in ManagerQueries : ExpandQuery(q)
  \/ ManagerReturn

SpecDictionary == InitDictionary /\ [][NextDictionary]_vars

\* ------------------------------------------- properties: dictionary_manager

\* The tokens of the query of the call of expand_query in progress.
ManagerQueryTokens == Range(tokenize_btp(normalize_text(manager_query), FALSE))

\* The canonical terms one of whose synonyms, normalized, is a query token.
CanonicalTermsOfQuery ==
  {canonical \in DOMAIN dictionary :
     \E j \in DOMAIN dictionary[canonical] :
       normalize_text(dictionary[canonical][j]) \in ManagerQueryTokens}

\* The terms the fan-out promises: the query tokens and every synonym listed
\* under those canonical terms.
FanOut ==
  ManagerQueryTokens \cup UNION {Range(dictionary[canonical]) : canonical \in CanonicalTermsOfQuery}

\* C13, as stated: whenever the fan-out has at most max_expansions terms,
\* expand_query returns the query tokens and, for every query token that is
\* the normalized form of a synonym listed under a canonical term, all the
\* synonyms listed under that canonical term, however the canonical key is
\* spelled.
C13_Original ==
  (manager_pc = "expanded" /\ Cardinality(FanOut) <= DefaultMaxExpansions) =>
    FanOut \subseteq expanded

\* The synonym is listed under the canonical term, whatever the case of the
\* letters, or is the canonical term itself.
AlreadyExists(dict, canonical, synonym) ==
  \/ Lower(synonym) = Lower(canonical)
  \/ /\ Lower(canonical) \in DOMAIN dict
     /\ \E j \in DOMAIN dict[Lower(canonical)] :
          Lower(dict[Lower(canonical)][j]) = Lower(synonym)

\* C14, as stated: a call of add_synonym with a synonym that already exists
\* case-insensitively for the canonical term, the canonical term itself
\* included, leaves the dictionary, the reverse index and the file as they
\* were and runs neither the rebuild nor the save.
C14_Original ==
  [][(manager_pc = "ready" /\ manager_pc' = "added"
        /\ AlreadyExists(dictionary, main_term', new_synonym')) =>
       /\ dictionary' = dictionary
       /\ reverse_index' = reverse_index
       /\ dictionary_file' = dictionary_file
       /\ ~rebuilt'
       /\ ~saved'
    ]_vars

\* C15, as stated: after load_dictionary and after every sequence of calls
\* of add_synonym, the reverse index holds normalize(canonical term) under
\* normalize(s) for every synonym s of every canonical term of the
\* dictionary, and nothing else.
C15_Original ==
  /\ \A canonical \in DOMAIN dictionary :
       \A j \in DOMAIN dictionary[canonical] :
         /\ normalize_text(dictionary[canonical][j]) \in DOMAIN reverse_index
         /\ normalize_text(canonical) \in reverse_index[normalize_text(dictionary[canonical][j])]
  /\ \A s \in DOMAIN reverse_index :
       \A m \in reverse_index[s] :
         \E canonical \in DOMAIN dictionary :
           /\ normalize_text(canonical) = m
           /\ \E j \in DOMAIN dictionary[canonical] :
                normalize_text(dictionary[canonical][j]) = s

\* ------------------------------------------------------ corrector: the object

\* The files at corrections_path: none, text that is not JSON, the file of
\* the engine, {}, {"Béton": ["betton", "BETON"]}, {"semelle": [1]},
\* ["semell"], {"semelle": "semell"} and {"semelle": 1}.
CorrectionsFiles ==
  { [kind |-> "missing"],
    [kind |-> "invalid_json"],
    CorrectionsFile,
    [kind |-> "dict", items |-> <<>>],
    [kind |-> "dict", items |-> << << <<"B", "e_acute", "t", "o", "n">>, << <<"b", "e", "t", "t", "o", "n">>, <<"B", "E", "T", "O", "N">> >> >> >>],
    [kind |-> "dict", items |-> << << <<"s", "e", "m", "e", "l", "l", "e">>, << NotAString >> >> >>],
    [kind |-> "list"],
    [kind |-> "dict_of_str", items |-> << << <<"s", "e", "m", "e", "l", "l", "e">>, <<"s", "e", "m", "e", "l", "l">> >> >>],
    [kind |-> "dict_of_number"] }

\* The arguments of correct_query: "semell beton", "Semelles en BETON" (E
\* acute), " semell ", "beton", "", "semelle", "SEMELL",
\* "semell semelles semell", "betton arme" (e acute), "semellbeton",
\* "semell  beton", "de la", "SEMELLES", "betton".
CorrectorQueries ==
  { <<"s", "e", "m", "e", "l", "l", " ", "b", "e", "t", "o", "n">>,
    <<"S", "e", "m", "e", "l", "l", "e", "s", " ", "e", "n", " ", "B", "E_acute", "T", "O", "N">>,
    <<" ", "s", "e", "m", "e", "l", "l", " ">>,
    <<"b", "e", "t", "o", "n">>,
    <<>>,
    <<"s", "e", "m", "e", "l", "l", "e">>,
    <<"S", "E", "M", "E", "L", "L">>,
    <<"s", "e", "m", "e", "l", "l", " ", "s", "e", "m", "e", "l", "l", "e", "s", " ", "s", "e", "m", "e", "l", "l">>,
    <<"b", "e", "t", "t", "o", "n", " ", "a", "r", "m", "e_acute">>,
    <<"s", "e", "m", "e", "l", "l", "b", "e", "t", "o", "n">>,
    <<"s", "e", "m", "e", "l", "l", " ", " ", "b", "e", "t", "o", "n">>,
    <<"d", "e", " ", "l", "a">>,
    <<"S", "E", "M", "E", "L", "L", "E", "S">>,
    <<"b", "e", "t", "t", "o", "n">> }

\* Before Corrector() is called.
InitCorrector ==
  /\ corrections_file \in CorrectionsFiles
  /\ correction_map = <<>>
  /\ corrector_pc = "new"
  /\ corrector_query = <<>>
  /\ corrector_result = <<>>
  /\ RequestAtRest
  /\ dictionary = <<>>
  /\ reverse_index = <<>>
  /\ TreeAtRest
  /\ loaded_csvs = None
  /\ ScopeAtRest
  /\ CodeAtRest
  /\ ManagerAtRest
  /\ LibraryAtRest
  /\ ThreadsAtRest
  /\ TextAtRest

\* Corrector.__init__ (lines 19-21) with _load_corrections (lines 23-45): the
\* map is built, or the error of the loop leaves the constructor.
ConstructCorrector ==
  /\ corrector_pc = "new"
  /\ IF LoadRaises(corrections_file)
     THEN corrector_pc' = "raised" /\ UNCHANGED correction_map
     ELSE corrector_pc' = "ready" /\ correction_map' = load_corrections(corrections_file)
  /\ UNCHANGED <<corrections_file, corrector_query, corrector_result>>
  /\ UNCHANGED not_corrector_vars

\* correct_query (lines 47-67)
CorrectQuery(q) ==
  /\ corrector_pc = "ready"
  /\ corrector_query' = q
  /\ corrector_result' = correct_query(correction_map, q)
  /\ corrector_pc' = "corrected"
  /\ UNCHANGED <<corrections_file, correction_map>>
  /\ UNCHANGED not_corrector_vars

\* The call returns to its caller.
CorrectorReturn ==
  /\ corrector_pc = "corrected"
  /\ corrector_pc' = "ready"
  /\ corrector_query' = <<>>
  /\ corrector_result' = <<>>
  /\ UNCHANGED <<corrections_file, correction_map>>
  /\ UNCHANGED not_corrector_vars

NextCorrector ==
  \/ ConstructCorrector
  \/ \E q \in CorrectorQueries : CorrectQuery(q)
  \/ CorrectorReturn

SpecCorrector == InitCorrector /\ [][NextCorrector]_vars

\* ---------------------------------------------------- properties: corrector

\* The whitespace tokens of the normalized query of the call in progress.
NormalizedWords == Split(normalize_text(corrector_query))

\* C16: with a correction index that is not empty, correct_query returns the
\* single-space join of the whitespace tokens of normalize(query) in their
\* order, each token replaced by its index value when it is an index key and
\* left as it is otherwise, whatever its neighbours are.
C16_TokenwiseCorrection ==
  (corrector_pc = "corrected" /\ DOMAIN correction_map # {}) =>
    corrector_result =
      Join([i \in DOMAIN NormalizedWords |->
              IF NormalizedWords[i] \in DOMAIN correction_map
              THEN correction_map[NormalizedWords[i]]
              ELSE NormalizedWords[i]],
           <<" ">>)

\* C16 happens: with the index of {"semelle": ["semell", "semelles"]},
\* "semell beton" came back as "semelle beton".
C16_Witness ==
  /\ corrector_pc = "corrected"
  /\ corrections_file = CorrectionsFile
  /\ corrector_query = <<"s", "e", "m", "e", "l", "l", " ", "b", "e", "t", "o", "n">>
  /\ corrector_result = <<"s", "e", "m", "e", "l", "l", "e", " ", "b", "e", "t", "o", "n">>

\* The file is JSON of the shape _load_corrections expects: a dict whose
\* values are lists of str.
WellFormed(file) ==
  /\ file.kind = "dict"
  /\ \A k \in DOMAIN file.items :
       \A j \in DOMAIN file.items[k][2] : IsString(file.items[k][2][j])

\* C17, as stated: whatever the corrections source is short of a well-formed
\* file (no file, text that is not JSON, JSON of another shape), Corrector()
\* does not raise, the correction index is empty, and correct_query returns
\* every query as it was given.
C17_Original ==
  (corrector_pc # "new" /\ ~WellFormed(corrections_file)) =>
    /\ corrector_pc # "raised"
    /\ DOMAIN correction_map = {}
    /\ corrector_pc = "corrected" => corrector_result = corrector_query

\* ------------------------- properties: the sentence encoder failing a request

\* The keyword-scored results of the request, best first.
KeywordResults == ResultsWithScores(b_query, price_type, loaded_csvs.df_search)

\* The answer made of the keyword-scored results alone.
KeywordOnlyAnswer(results) == GlobalSuggestions(Slice(results, b_limit))

\* The request went through the semantic fallback of the global search: it
\* reached the global search, none of its keyword results scores above 20 and
\* the query leaves words to encode.
FallbackEntered(results) ==
  /\ scope_pc = "done"
  /\ Len(b_query) >= 2
  /\ search_scope = <<>>
  /\ results = <<>> \/ results[1].score <= 20
  /\ ProcessedQuery(ListOf(backend_expand_query(b_query))) # <<>>

\* The entries of the flat frame the keyword scoring did not find.
NotFoundByKeywords(results) ==
  {i \in DOMAIN loaded_csvs.df_search :
     \A k \in DOMAIN results : results[k].index # loaded_csvs.df_search[i].index}

\* The sentence encoder raised during the fallback: while encoding the query
\* or at one of the cosine similarities, one for each entry not found.
ProviderFailed(results) ==
  /\ provider_fault >= 1
  /\ FallbackEntered(results)
  /\ provider_fault <= 1 + Cardinality(NotFoundByKeywords(results))

\* A request the encoder failed is answered with the keyword results alone.
AnsweredByKeywordsAlone(results) ==
  ProviderFailed(results) => b_response = KeywordOnlyAnswer(results)

\* C18: when the sentence encoder fails at any point of the semantic fallback
\* of the global search, the request is answered all the same, with exactly
\* the keyword-scored results: none of the similarities computed before the
\* failure is in the answer.
C18_ProviderFailure ==
  (scope_pc = "done" /\ provider_fault >= 1) => AnsweredByKeywordsAlone(KeywordResults)

\* C18 happens: the encoder raised at the second cosine similarity, after a
\* first entry had been rated similar, and the answer holds the keyword
\* results only, where the same request with a working encoder gets more.
C18_Witness ==
  /\ scope_pc = "done"
  /\ provider_fault = 3
  /\ model_kind = "generous"
  /\ ProviderFailed(KeywordResults)
  /\ b_response = KeywordOnlyAnswer(KeywordResults)
  /\ search_global(b_query, price_type, loaded_csvs.df_search, b_limit, model_kind, 0)
       # b_response


\* ------------------------------------------ app: the calls of load_library

\* Two catalog files, after their 4 header lines:
\* "Semelle béton " with prices 80, 95, 110; a row with no designation;
\* "mur"; " Semelle béton" with no unit and no Moyen price
LibraryFileA ==
  [kind |-> "csv", rows |->
  << [Code |-> <<"1", ".", "1">>, Designation |-> <<"S", "e", "m", "e", "l", "l", "e", " ", "b", "e_acute", "t", "o", "n", " ">>, Unite |-> <<"m", "3">>,
      Minimum |-> <<"8", "0">>, Moyen |-> <<"9", "5">>, Maximum |-> <<"1", "1", "0">>, Extra |-> NaN],
     [Code |-> <<"1", ".", "2">>, Designation |-> NaN, Unite |-> <<"m", "3">>,
      Minimum |-> <<"1">>, Moyen |-> <<"2">>, Maximum |-> <<"3">>, Extra |-> NaN],
     [Code |-> <<"1", ".", "3">>, Designation |-> <<"m", "u", "r">>, Unite |-> <<"m", "2">>,
      Minimum |-> <<"7">>, Moyen |-> <<"8">>, Maximum |-> <<"9">>, Extra |-> NaN],
     [Code |-> <<"1", ".", "4">>, Designation |-> <<" ", "S", "e", "m", "e", "l", "l", "e", " ", "b", "e_acute", "t", "o", "n">>, Unite |-> NaN,
      Minimum |-> <<"1", "0">>, Moyen |-> NaN, Maximum |-> <<" ", "3", "0", " ">>, Extra |-> NaN] >>]

\* "fouille" with no Minimum price
LibraryFileB ==
  [kind |-> "csv", rows |->
  << [Code |-> <<"2", ".", "1">>, Designation |-> <<"f", "o", "u", "i", "l", "l", "e">>, Unite |-> <<"m", "3">>,
      Minimum |-> NaN, Moyen |-> <<"4">>, Maximum |-> <<"5">>, Extra |-> NaN] >>]

LibraryFiles ==
  {[kind |-> "missing"], [kind |-> "unreadable"], LibraryFileA, LibraryFileB}

\* The library parameter: "bpu", "bpu_Moyen"
LibraryNames == {<<"b", "p", "u">>, <<"b", "p", "u", "_", "M", "o", "y", "e", "n">>}

\* The price_type parameter: "Moyen", "Maximum", "Moyen_Maximum"
LibraryPriceTypes == {<<"M", "o", "y", "e", "n">>, <<"M", "a", "x", "i", "m", "u", "m">>, <<"M", "o", "y", "e", "n", "_", "M", "a", "x", "i", "m", "u", "m">>}

InitLibrary ==
  /\ bibliotheque \in [LibraryNames -> {[kind |-> "missing"], LibraryFileA}]
  /\ loaded_libraries = <<>>
  /\ current_library_key = NoKey
  /\ LibraryIdle
  /\ served = <<>>
  /\ loaded_for = <<>>
  /\ EngineAtRest
  /\ TreeAtRest
  /\ loaded_csvs = None
  /\ ScopeAtRest
  /\ CodeAtRest
  /\ ManagerAtRest
  /\ CorrectorAtRest
  /\ ThreadsAtRest
  /\ TextAtRest

\* The history of the calls: the catalog the first call that returned one for
\* the pair returned.
ServedAfter(history, name, pt, result) ==
  IF result = None \/ <<name, pt>> \in DOMAIN history THEN history
  ELSE (<<name, pt>> :> result) @@ history

\* load_library(library_name, price_type)  (lines 50-90)
LoadLibrary(name, pt, encoder_up) ==
  /\ library_pc = "idle"
  /\ library_pc' = "returned"
  /\ library_name' = name
  /\ library_price_type' = pt
  /\ IF CacheHit(loaded_libraries, CacheKey(name, pt))
     THEN /\ current_library_key' = CacheKey(name, pt)
          /\ library_result' = loaded_libraries[CacheKey(name, pt)]
          /\ library_computed' = FALSE
          /\ UNCHANGED <<loaded_libraries, loaded_for>>
     ELSE IF FileOf(bibliotheque, name).kind = "missing"
             \/ LoadRaisesOn(FileOf(bibliotheque, name), pt, encoder_up)
     THEN /\ library_result' = None
          /\ library_computed' = FALSE
          /\ UNCHANGED <<loaded_libraries, current_library_key, loaded_for>>
     ELSE /\ library_result' = LoadedCatalog(FileOf(bibliotheque, name), pt)
          /\ loaded_libraries' =
               Stored(loaded_libraries, CacheKey(name, pt), library_result')
          /\ current_library_key' = CacheKey(name, pt)
          /\ library_computed' = TRUE
          /\ loaded_for' = (CacheKey(name, pt) :> <<name, pt>>) @@ loaded_for
  /\ served' = ServedAfter(served, name, pt, library_result')
  /\ UNCHANGED bibliotheque
  /\ UNCHANGED not_library_vars

\* The caller has the result (lines 58, 63, 87, 90).
LibraryReturn ==
  /\ library_pc = "returned"
  /\ library_pc' = "idle"
  /\ library_name' = <<>>
  /\ library_price_type' = <<>>
  /\ library_result' = None
  /\ library_computed' = FALSE
  /\ UNCHANGED <<bibliotheque, loaded_libraries, current_library_key, served, loaded_for>>
  /\ UNCHANGED not_library_vars

\* Between two calls a file of the folder is written, replaced or removed.
WriteLibraryFile(name, file) ==
  /\ library_pc = "idle"
  /\ FileOf(bibliotheque, name) # file
  /\ bibliotheque' = [bibliotheque EXCEPT ![name] = file]
  /\ UNCHANGED <<loaded_libraries, current_library_key, library_pc, library_name,
                 library_price_type, library_result, library_computed, served,
                 loaded_for>>
  /\ UNCHANGED not_library_vars

NextLibrary ==
  \/ \E name \in LibraryNames, pt \in LibraryPriceTypes, encoder_up \in BOOLEAN :
       LoadLibrary(name, pt, encoder_up)
  \/ LibraryReturn
  \/ \E name \in LibraryNames, file \in LibraryFiles : WriteLibraryFile(name, file)

SpecLibrary == InitLibrary /\ [][NextLibrary]_vars


\* ------------------------------- app: two threads in load_library at once

\* The request threads of the Flask server (app.run, line 151).
Threads == {1, 2}

Other(t) == 3 - t

\* The calls the two threads make: "bpu" with "Moyen" or "Maximum".
RaceNames == {<<"b", "p", "u">>}

RacePriceTypes == {<<"M", "o", "y", "e", "n">>, <<"M", "a", "x", "i", "m", "u", "m">>}

RaceFiles == {[kind |-> "missing"], LibraryFileA, LibraryFileB}

InitRace ==
  /\ bibliotheque \in [RaceNames -> {[kind |-> "missing"], LibraryFileA}]
  /\ loaded_libraries = <<>>
  /\ current_library_key = NoKey
  /\ thread_pc = [t \in Threads |-> "ready"]
  /\ thread_name = [t \in Threads |-> <<>>]
  /\ thread_price_type = [t \in Threads |-> <<>>]
  /\ thread_df = [t \in Threads |-> None]
  /\ writers = <<>>
  /\ overlapped = FALSE
  /\ LibraryIdle
  /\ served = <<>>
  /\ loaded_for = <<>>
  /\ EngineAtRest
  /\ TreeAtRest
  /\ loaded_csvs = None
  /\ ScopeAtRest
  /\ CodeAtRest
  /\ ManagerAtRest
  /\ CorrectorAtRest
  /\ TextAtRest

\* The thread is between its test of the cache and its return.
InLoad(t) == thread_pc[t] \in {"exists", "load", "store"}

ThreadKey(t) == CacheKey(thread_name[t], thread_price_type[t])

\* Thread t enters load_library and tests the cache (lines 53-58).
TestCache(t, name, pt) ==
  /\ thread_pc[t] = "ready"
  /\ thread_name' = [thread_name EXCEPT ![t] = name]
  /\ thread_price_type' = [thread_price_type EXCEPT ![t] = pt]
  /\ overlapped' = (overlapped \/ InLoad(Other(t)))
  /\ IF CacheHit(loaded_libraries, CacheKey(name, pt))
     THEN /\ current_library_key' = CacheKey(name, pt)
          /\ thread_df' = [thread_df EXCEPT ![t] = loaded_libraries[CacheKey(name, pt)]]
          /\ thread_pc' = [thread_pc EXCEPT ![t] = "done"]
     ELSE /\ thread_pc' = [thread_pc EXCEPT ![t] = "exists"]
          /\ UNCHANGED <<current_library_key, thread_df>>
  /\ UNCHANGED <<bibliotheque, loaded_libraries, writers>>
  /\ UNCHANGED not_race_vars

\* if not csv_path.exists(): return None  (lines 60-63)
CheckFile(t) ==
  /\ thread_pc[t] = "exists"
  /\ thread_pc' = [thread_pc EXCEPT ![t] =
                     IF FileOf(bibliotheque, thread_name[t]).kind = "missing"
                     THEN "done" ELSE "load"]
  /\ UNCHANGED <<bibliotheque, loaded_libraries, current_library_key, thread_name,
                 thread_price_type, thread_df, writers, overlapped>>
  /\ UNCHANGED not_race_vars

\* The file read, cleaned and encoded (lines 67-83), or the error caught at
\* line 88: the file is gone by now, or the try block raises.
LoadFile(t, encoder_up) ==
  /\ thread_pc[t] = "load"
  /\ IF FileOf(bibliotheque, thread_name[t]).kind = "missing"
        \/ LoadRaisesOn(FileOf(bibliotheque, thread_name[t]), thread_price_type[t],
                        encoder_up)
     THEN /\ thread_pc' = [thread_pc EXCEPT ![t] = "done"]
          /\ UNCHANGED thread_df
     ELSE /\ thread_pc' = [thread_pc EXCEPT ![t] = "store"]
          /\ thread_df' = [thread_df EXCEPT ![t] =
               LoadedCatalog(FileOf(bibliotheque, thread_name[t]), thread_price_type[t])]
  /\ UNCHANGED <<bibliotheque, loaded_libraries, current_library_key, thread_name,
                 thread_price_type, writers, overlapped>>
  /\ UNCHANGED not_race_vars

\* loaded_libraries[cache_key] = df; current_library_key = cache_key; return
\* df  (lines 85-87)
StoreCatalog(t) ==
  /\ thread_pc[t] = "store"
  /\ loaded_libraries' = Stored(loaded_libraries, ThreadKey(t), thread_df[t])
  /\ current_library_key' = ThreadKey(t)
  /\ writers' = Append(writers, t)
  /\ thread_pc' = [thread_pc EXCEPT ![t] = "done"]
  /\ UNCHANGED <<bibliotheque, thread_name, thread_price_type, thread_df, overlapped>>
  /\ UNCHANGED not_race_vars

\* A file of the folder is written, replaced or removed meanwhile.
WriteRaceFile(name, file) ==
  /\ FileOf(bibliotheque, name) # file
  /\ bibliotheque' = [bibliotheque EXCEPT ![name] = file]
  /\ UNCHANGED <<loaded_libraries, current_library_key>>
  /\ UNCHANGED thread_vars
  /\ UNCHANGED not_race_vars

NextRace ==
  \/ \E t \in Threads, name \in RaceNames, pt \in RacePriceTypes : TestCache(t, name, pt)
  \/ \E t \in Threads : CheckFile(t)
  \/ \E t \in Threads, encoder_up \in BOOLEAN : LoadFile(t, encoder_up)
  \/ \E t \in Threads : StoreCatalog(t)
  \/ \E name \in RaceNames, file \in RaceFiles : WriteRaceFile(name, file)

SpecRace == InitRace /\ [][NextRace]_vars

\* -------------------------------------------- properties: app.load_library

\* The pair of the call that has just returned or is about to.
CalledPair == <<library_name, library_price_type>>

\* C19: once a call of load_library has returned a catalog for a (library
\* name, price type) pair, no later call for that pair cleans the file or
\* computes embeddings again: it returns the catalog first returned, and the
\* cache is left as it was, whatever has become of the file.
C19_Memoized ==
  [][(library_pc = "idle" /\ library_pc' = "returned" /\ CalledPair' \in DOMAIN served)
       => /\ ~library_computed'
          /\ library_result' = served[CalledPair']
          /\ loaded_libraries' = loaded_libraries]_vars

\* C19 happens: the file of a loaded library has been replaced by another and
\* a later call for the same pair returned the catalog of the first load,
\* computing nothing.
C19_Witness ==
  /\ library_pc = "returned"
  /\ CalledPair \in DOMAIN served
  /\ loaded_for[CacheKey(library_name, library_price_type)] = CalledPair
  /\ ~library_computed
  /\ library_result = served[CalledPair]
  /\ FileOf(bibliotheque, library_name) = LibraryFileB
  /\ library_result # LoadedCatalog(LibraryFileB, library_price_type)

\* C20 as stated: a call of load_library that returns a catalog returns one
\* that a call for the same (library name, price type) pair loaded.
C20_Original ==
  (library_pc = "returned" /\ library_result # None)
    => loaded_for[CacheKey(library_name, library_price_type)] = CalledPair


\* The status the /search route answers with for what load_library returned
\* (app.py lines 121-126).
SearchStatus(loaded) == IF loaded = None THEN 404 ELSE 200

\* The file of the library is missing or cannot be read.
SourceUnavailable(folder, name) ==
  FileOf(folder, name).kind \in {"missing", "unreadable"}

\* C21 as stated: a call of load_library for a library whose file is missing
\* or unreadable returns no catalog, so that /search answers 404, and leaves
\* the cache and the current-library key as they were.
C21_Original ==
  [][(library_pc = "idle" /\ library_pc' = "returned"
        /\ SourceUnavailable(bibliotheque, library_name'))
       => /\ library_result' = None
          /\ SearchStatus(library_result') = 404
          /\ loaded_libraries' = loaded_libraries
          /\ current_library_key' = current_library_key]_vars


\* Every entry of the cache is still there after the step, with its catalog.
EntriesKept ==
  \A cache_key \in DOMAIN loaded_libraries :
    /\ cache_key \in DOMAIN loaded_libraries'
    /\ loaded_libraries'[cache_key] = loaded_libraries[cache_key]

\* current_library_key is None or a key of the cache.
CurrentKeyCached ==
  current_library_key = NoKey \/ current_library_key \in DOMAIN loaded_libraries

\* C30: over any sequence of calls of load_library, successful or failing,
\* with the files of the folder changing in between, a key of
\* loaded_libraries is never removed and never gets another catalog, and
\* current_library_key is always None or a key of loaded_libraries.
C30_CacheInvariants ==
  CurrentKeyCached /\ [][EntriesKept /\ CurrentKeyCached']_vars

\* C30 happens: with two catalogs in the cache a call has failed, and both
\* entries and the current key are still there.
C30_Witness ==
  /\ library_pc = "returned"
  /\ library_result = None
  /\ Cardinality(DOMAIN loaded_libraries) >= 2
  /\ current_library_key \in DOMAIN loaded_libraries
  /\ FileOf(bibliotheque, library_name).kind = "unreadable"


\* ------------------------------------- properties: the race on the cache

\* The threads that stored under the key, in the order of their stores.
WritersOf(cache_key) == SelectSeq(writers, LAMBDA t : ThreadKey(t) = cache_key)

\* C26: with two threads in load_library, the cache holds under each key the
\* catalog of the thread that stored last, and two threads both store under
\* one key only if one tested the cache while the other was between its own
\* test and its store: calls that do not overlap load a key at most once.
C26_LastWriterWins ==
  \A t \in Threads :
    thread_pc[t] = "done" =>
      LET cache_key == CacheKey(thread_name[t], thread_price_type[t])
      IN /\ (WritersOf(cache_key) # <<>>
               /\ WritersOf(cache_key)[Len(WritersOf(cache_key))] = t)
              => loaded_libraries[cache_key] = thread_df[t]
         /\ Len(WritersOf(cache_key)) >= 2 => overlapped

\* C26 happens: both threads missed the cache for the same key, both loaded
\* the file, which was replaced in between, both stored, and the cache holds
\* the catalog of the second store, not of the first.
C26_Witness ==
  /\ \A t \in Threads : thread_pc[t] = "done"
  /\ ThreadKey(1) = ThreadKey(2)
  /\ writers = <<1, 2>>
  /\ thread_df[1] # thread_df[2]
  /\ loaded_libraries[ThreadKey(2)] = thread_df[2]


\* ------------------------------------------ text_processor: calls on a text

MaxTextLen == 3

\* Characters of the free texts: letters of both cases, composed accented
\* letters, marks of categories Mn and Mc, a letter of category Lu without a
\* lower-case mapping, the space.
TextAlphabet ==
  {"a", "E", "e_acute", "E_grave", "comb_acute", "joiner", "mark_pamudpod",
   "mark_ca", "C_double_struck", " "}

FreeTexts == UNION {[1..n -> TextAlphabet] : n \in 0..MaxTextLen}

\* A number, a space and each unit of DOSAGE_PATTERN.
DosageTexts ==
  { <<"3", "5", "0", " ", "k", "g", "/", "m", "2">>,
    <<"3", "5", "0", " ", "k", "g", "/", "m", "3">>,
    <<"3", "5", "0", " ", "k", "g">>,
    <<"3", "5", "0", " ", "l", "/", "m", "2">>,
    <<"3", "5", "0", " ", "l", "/", "m", "3">> }

TextArguments == FreeTexts \cup DosageTexts \cup {NotAString}

InitText ==
  /\ text_arg \in TextArguments
  /\ text_pc = "start"
  /\ normalized = <<>>
  /\ renormalized = <<>>
  /\ tokens = <<>>
  /\ EngineAtRest
  /\ TreeAtRest
  /\ loaded_csvs = None
  /\ ScopeAtRest
  /\ CodeAtRest
  /\ ManagerAtRest
  /\ CorrectorAtRest
  /\ LibraryAtRest
  /\ ThreadsAtRest

\* normalize_text(text)
NormalizeText ==
  /\ text_pc = "start"
  /\ normalized' = normalize_text(text_arg)
  /\ text_pc' = "normalized"
  /\ UNCHANGED <<text_arg, renormalized, tokens>>
  /\ UNCHANGED not_text_vars

\* normalize_text(normalize_text(text))
NormalizeAgain ==
  /\ text_pc = "normalized"
  /\ renormalized' = normalize_text(normalized)
  /\ text_pc' = "renormalized"
  /\ UNCHANGED <<text_arg, normalized, tokens>>
  /\ UNCHANGED not_text_vars

\* tokenize_btp(text, preserve_technical) on a str
TokenizeBtp(preserve_technical) ==
  /\ text_pc = "start"
  /\ IsString(text_arg)
  /\ tokens' = tokenize_btp(text_arg, preserve_technical)
  /\ text_pc' = IF preserve_technical THEN "tokenized_preserving" ELSE "tokenized"
  /\ UNCHANGED <<text_arg, normalized, renormalized>>
  /\ UNCHANGED not_text_vars

NextText ==
  \/ NormalizeText
  \/ NormalizeAgain
  \/ \E preserve_technical \in BOOLEAN : TokenizeBtp(preserve_technical)

SpecText == InitText /\ [][NextText]_vars

\* ------------------------------------------- properties: the text processor

\* str.isupper() on one character: category Lu.
IsUpperCase(c) == c \in UpperLetters \cup AccentedUpper \cup UncasedUpper

\* C22: normalize_text is idempotent on every string, its output holds no
\* upper-case letter and no combining mark, and a value that is not a string
\* gives the empty string.
C22_Original ==
  /\ text_pc \in {"normalized", "renormalized"} =>
       /\ \A i \in DOMAIN normalized :
            /\ ~IsUpperCase(normalized[i])
            /\ normalized[i] \notin CombiningMarks \cup SpacingMarks
       /\ ~IsString(text_arg) => normalized = <<>>
  /\ text_pc = "renormalized" => renormalized = normalized

\* C27: with preserve_technical, a dosage written as a number, a space and a
\* unit is one token of the output.
C27_Original ==
  (text_pc = "tokenized_preserving" /\ text_arg \in DosageTexts) =>
    text_arg \in Range(tokens)

\* ---------------------------- search_engine: the synonym tier, more dictionaries

\* technical_dictionary.json: {"béton": ["béton", "ciment", "mortier"]}
AccentedDictionary ==
  <<"b", "e_acute", "t", "o", "n">> :> << <<"b", "e_acute", "t", "o", "n">>, <<"c", "i", "m", "e", "n", "t">>, <<"m", "o", "r", "t", "i", "e", "r">> >>

\* technical_dictionary.json: {"beton": [...]} with eleven synonyms, one more
\* than expand_query keeps.
LargeDictionary ==
  <<"b", "e", "t", "o", "n">> :>
     << <<"b", "e", "t", "o", "n">>,
        <<"c", "i", "m", "e", "n", "t">>,
        <<"m", "o", "r", "t", "i", "e", "r">>,
        <<"c", "h", "a", "p", "e">>,
        <<"d", "a", "l", "l", "e">>,
        <<"r", "a", "d", "i", "e", "r">>,
        <<"p", "o", "t", "e", "a", "u">>,
        <<"p", "o", "u", "t", "r", "e">>,
        <<"v", "o", "i", "l", "e">>,
        <<"e", "n", "d", "u", "i", "t">>,
        <<"c", "o", "u", "l", "i", "s">> >>

SynonymDictionaries == {DictionaryFile, AccentedDictionary, LargeDictionary}

\* BTCSearchEngine() over one of the dictionaries (lines 34-39).
InitSynonym ==
  /\ df \in Catalogs
  /\ corrections_file \in {[kind |-> "missing"], CorrectionsFile}
  /\ correction_map = load_corrections(corrections_file)
  /\ CorrectorIdle
  /\ \E entries \in SynonymDictionaries :
       /\ dictionary_file = [kind |-> "dict", entries |-> entries]
       /\ dictionary = entries
       /\ reverse_index = build_reverse_index(entries)
  /\ pc = "idle"
  /\ query = <<>>
  /\ limit = 0
  /\ corrected_query = <<>>
  /\ query_norm = <<>>
  /\ query_tokens = {}
  /\ results_d1 = <<>>
  /\ synonym_terms = {}
  /\ results_d3 = <<>>
  /\ response = <<>>
  /\ scored = 0
  /\ expander_calls = 0
  /\ TreeAtRest
  /\ loaded_csvs = None
  /\ ScopeAtRest
  /\ CodeAtRest
  /\ ManagerIdle
  /\ LibraryAtRest
  /\ ThreadsAtRest
  /\ TextAtRest

SpecSynonym == InitSynonym /\ [][Next]_vars

\* What the synonym tier returns when expand_query keeps `kept`
\* (lines 111-135).
D3Answer(frame, kept, q_tokens, lim) ==
  IF kept \ q_tokens = {} THEN <<>>
  ELSE Slice(SortByScoreDesc(BuildD3From(frame, kept \ q_tokens, 1)), lim)

\* ---------------------------------------------- properties: the synonym tier

\* The synonym tier has answered the request.
AnsweredByD3 == pc = "done" /\ expander_calls = 1

\* The terms the dictionary lists together with a query token, the token's
\* own spelling aside.
DictionarySynonyms(dict, q_tokens) ==
  UNION {Range(dict[m]) : m \in {mm \in DOMAIN dict :
           \E j \in DOMAIN dict[mm] : normalize_text(dict[mm][j]) \in q_tokens}}
    \ q_tokens

\* A dictionary synonym of a query token is a token of an entry.
SynonymOccurs(frame, dict, q_tokens) ==
  \E i \in DOMAIN frame :
    DictionarySynonyms(dict, q_tokens) \cap frame[i].designation_tokens # {}

\* The pure-synonym terms that match the entry of a result.
SynonymsMatching(frame, result, syn_terms) ==
  {t \in syn_terms :
     \E i \in DOMAIN frame :
        /\ frame[i].Designation = result.designation
        /\ \E d_token \in frame[i].designation_tokens : PrefixRelated(t, d_token)}

\* C23: when the synonym tier answers and a dictionary synonym of a query
\* token is a token of an entry, the answer is not empty, every result is
\* labelled as a synonym match and scores 5 for each pure-synonym term that
\* matches its entry; when there is no pure-synonym term the answer is empty.
C23_Original ==
  AnsweredByD3 =>
    /\ synonym_terms = {} => response = <<>>
    /\ SynonymOccurs(df, dictionary, query_tokens) =>
         /\ response # <<>>
         /\ \A k \in DOMAIN response :
              /\ response[k].match_type = MatchD3
              /\ response[k].score =
                   5 * Cardinality(SynonymsMatching(df, response[k], synonym_terms))

\* C24: expand_query returns at most max_expansions terms, and the answer of
\* the synonym tier is the same whichever terms the truncation keeps.
C24_Original ==
  [][(pc = "d3" /\ pc' = "done") =>
       \A kept \in expand_query(dictionary, reverse_index, corrected_query,
                                DefaultMaxExpansions) :
          /\ Cardinality(kept) <= DefaultMaxExpansions
          /\ response' = D3Answer(df, kept, query_tokens, limit)]_vars

\* ------------------------------- properties: the fallback of the global search

\* The request was answered by search_global.
AnsweredByGlobal == scope_pc = "done" /\ Len(b_query) >= 2 /\ search_scope = <<>>

\* A keyword result scores above the high-confidence threshold of line 656.
HighConfidence(results) == results # <<>> /\ results[1].score > 20

\* The similarity pass has left a trace: the encoder raised at one of its
\* calls, or the merged list holds an entry the keywords did not find.
SimilarityPassRan(results, merged) ==
  \/ provider_fault >= 1
  \/ \E k \in DOMAIN merged :
       \A j \in DOMAIN results : results[j].index # merged[k].index

NoEntryTwice(merged) ==
  \A j, k \in DOMAIN merged : j # k => merged[j].index # merged[k].index

SortedByScore(merged) ==
  \A j, k \in DOMAIN merged : j < k => merged[j].score >= merged[k].score

FallbackMerge(results, merged) ==
  /\ SimilarityPassRan(results, merged) => ~HighConfidence(results)
  /\ NoEntryTwice(merged)
  /\ SortedByScore(merged)
  /\ b_response = GlobalSuggestions(Slice(merged, b_limit))

\* C25: in search_global the similarity pass runs only when no keyword result
\* scores above 20; it rates only entries the keywords did not find, so that
\* no entry is twice in the merged list; and the merged list is sorted by
\* score, best first, before it is cut to the limit.
C25_GlobalFallback ==
  AnsweredByGlobal => FallbackMerge(results_with_scores, final_results)

\* C25 happens: a request is answered with keyword results, none above 20,
\* merged with entries the similarity pass found, and the merged list is
\* longer than the limit.
C25_Witness ==
  /\ AnsweredByGlobal
  /\ provider_fault = 0
  /\ results_with_scores # <<>>
  /\ ~HighConfidence(results_with_scores)
  /\ Len(final_results) > Len(results_with_scores)
  /\ Len(final_results) > b_limit
  /\ b_response # <<>>

\* ------------------------------------ properties: every row is in the tree

\* The positions of the content lists of the tree that hold row number i.
Occurrences(tree, i) ==
  UNION {{<<place, k>> : k \in {n \in DOMAIN ContentAt(tree, place) :
                                  ContentAt(tree, place)[n].index = i}} :
         place \in Places(tree)}

\* The rows the loop has gone through.
RowsDone == 1..(idx - 1)

\* C28: whatever the order of the rows, once the loop of
\* build_hierarchical_structure has gone through a row whose code has three
\* segments or more, the title key made of its first three segments is in the
\* tree, and if the row is a content row it is held exactly once over all the
\* content lists of the tree; a row not gone through yet is held nowhere.
C28_EveryRowOnce ==
  /\ \A i \in RowsDone :
       Len(SegmentsAt(i)) >= 3 =>
         /\ FirstSegments(SegmentsAt(i), 3) \in DOMAIN structure.node
         /\ IsContentRow(SegmentsAt(i)) => Cardinality(Occurrences(structure, i)) = 1
  /\ \A i \in DOMAIN df_hierarchical \ RowsDone : Occurrences(structure, i) = {}
  /\ tree_pc = "loaded" => loaded_csvs.hierarchical_data = structure

\* C28 happens: the tree is built from rows of which one content row is held
\* by a subtitle node and another by a title node, each once.
C28_Witness ==
  /\ tree_pc = "loaded"
  /\ \E i, j \in DOMAIN df_hierarchical :
       /\ IsContentRow(SegmentsAt(i))
       /\ IsContentRow(SegmentsAt(j))
       /\ \E place \in Placement(structure, i) : Len(place) = 2
       /\ \E place \in Placement(structure, j) : Len(place) = 1
       /\ Cardinality(Occurrences(structure, i)) = 1
       /\ Cardinality(Occurrences(structure, j)) = 1

\* ------------------------------------- properties: the scope of the titles

\* The request was answered by the search within the scope of its titles,
\* no subtitle given.
AnsweredFromTitles ==
  /\ scope_pc = "done"
  /\ selected_titles # <<>>
  /\ subtitle = <<>>
  /\ search_scope # <<>>

\* The content of the matched title nodes and of their subtitle nodes, each
\* row of the catalog counted once.
ContentOfTitles(tree, matches) ==
  UNION {Range(tree.node[matches[k].title_key].content)
           \cup UNION {Range(tree.node[matches[k].title_key].subtitles.node[sk].content) :
                         sk \in DOMAIN tree.node[matches[k].title_key].subtitles.node} :
         k \in DOMAIN matches}

\* C29: without a subtitle the scope holds the content of each matched title
\* and of its subtitles, each entry once, and no entry of the catalog is twice
\* in the answer, however the titles were matched.
C29_Original ==
  AnsweredFromTitles =>
    /\ Range(search_scope) =
         ContentOfTitles(loaded_csvs.hierarchical_data, matching_titles)
    /\ \A j, k \in DOMAIN search_scope :
         j # k => search_scope[j].index # search_scope[k].index
    /\ \A j, k \in DOMAIN b_response :
         j # k => b_response[j].code # b_response[k].code

====
